---- MODULE Spec2Model ----
(***************************************************************************)
(* Model of the ffmpeg-installer package (release-download revision):      *)
(*   src/src/installer.ts   install, promptForInstallation                 *)
(*   src/src/downloader.ts  downloadFile, downloadBinaries, updateConfig   *)
(*   src/src/verify.ts      verifyFile, ensureDir, makeExecutable,         *)
(*                          verifyConfig, createInitialConfig              *)
(*   src/src/paths.ts       getCurrentPlatform, getPlatformByIdentifier,   *)
(*                          getBinaryPath, getPlatformDir                  *)
(*   src/src/index.ts       getInstalledBinaries                           *)
(*   src/src/constants.ts   SUPPORTED_PLATFORMS, BINARIES_DIR, CONFIG path *)
(*                                                                         *)
(* The file system is a map from paths to files, the config file is a     *)
(* text that JSON.parse either rejects or turns into a value, and the     *)
(* network answers every request with success, an error, or a stream that *)
(* breaks after the response has started.                                  *)
(***************************************************************************)
EXTENDS Integers, Sequences, FiniteSets, TLC

(***************************************************************************)
(* Bounds of the model.                                                    *)
(***************************************************************************)
MaxRuns == 2

\* the number of invocations of the archive-extracting installer in a behaviour
MaxArchiveRuns == 1

(***************************************************************************)
(* String helpers (String.prototype.startsWith, split('=')[1], path.join). *)
(***************************************************************************)
startsWith(s, p) == Len(s) >= Len(p) /\ SubSeq(s, 1, Len(p)) = p

RECURSIVE indexOfFrom(_, _, _)
indexOfFrom(s, c, i) ==
  IF i > Len(s) THEN 0
  ELSE IF SubSeq(s, i, i) = c THEN i
  ELSE indexOfFrom(s, c, i + 1)

\* arg.split('=')[1]: the text between the first and the second '='
\* (to the end when there is no second one).
splitEq1(s) ==
  LET i == indexOfFrom(s, "=", 1)
      j == IF i = 0 THEN 0 ELSE indexOfFrom(s, "=", i + 1)
  IN  IF i = 0 THEN ""
      ELSE IF j = 0 THEN SubSeq(s, i + 1, Len(s))
      ELSE SubSeq(s, i + 1, j - 1)

pathJoin(a, b) == a \o "/" \o b

(***************************************************************************)
(* Bitwise OR on naturals (stats.mode | 0o755).                            *)
(***************************************************************************)
RECURSIVE BitOr(_, _)
BitOr(a, b) ==
  IF a = 0 THEN b
  ELSE IF b = 0 THEN a
  ELSE (IF (a % 2) + (b % 2) > 0 THEN 1 ELSE 0) + 2 * BitOr(a \div 2, b \div 2)

RECURSIVE BitAnd(_, _)
BitAnd(a, b) ==
  IF a = 0 \/ b = 0 THEN 0
  ELSE (IF (a % 2) + (b % 2) = 2 THEN 1 ELSE 0) + 2 * BitAnd(a \div 2, b \div 2)

\* 0o755
ExecMode == 493
\* 0o111: the owner, group and other execute bits
ExecBits == 64 + 8 + 1
\* 0o644: the mode of a file createWriteStream creates (0o666 under the
\* usual umask 022)
NewFileMode == 420

(***************************************************************************)
(* constants.ts / downloader.ts constants                                  *)
(***************************************************************************)
GITHUB_REPO == "w3vish/ffmpeg-installer"
GITHUB_RELEASE_TAG == "v1.0.0"
BINARIES_DIR == "/appdata/ffmpeg-installer/binaries"
CONFIG_FILE_PATH == "/appdata/ffmpeg-installer/config.json"

Kinds == {"ffmpeg", "ffprobe"}

\* the table with the linux/arm entry carrying the identifier of linux/arm64
SUPPORTED_PLATFORMS_dupId == <<
  [platform |-> "win32",  arch |-> "x64",   identifier |-> "win32-x64",
   binaryName |-> [ffmpeg |-> "ffmpeg.exe", ffprobe |-> "ffprobe.exe"]],
  [platform |-> "win32",  arch |-> "ia32",  identifier |-> "win32-ia32",
   binaryName |-> [ffmpeg |-> "ffmpeg.exe", ffprobe |-> "ffprobe.exe"]],
  [platform |-> "darwin", arch |-> "x64",   identifier |-> "darwin-x64",
   binaryName |-> [ffmpeg |-> "ffmpeg", ffprobe |-> "ffprobe"]],
  [platform |-> "darwin", arch |-> "arm64", identifier |-> "darwin-arm64",
   binaryName |-> [ffmpeg |-> "ffmpeg", ffprobe |-> "ffprobe"]],
  [platform |-> "linux",  arch |-> "x64",   identifier |-> "linux-x64",
   binaryName |-> [ffmpeg |-> "ffmpeg", ffprobe |-> "ffprobe"]],
  [platform |-> "linux",  arch |-> "ia32",  identifier |-> "linux-ia32",
   binaryName |-> [ffmpeg |-> "ffmpeg", ffprobe |-> "ffprobe"]],
  [platform |-> "linux",  arch |-> "arm",   identifier |-> "linux-arm64",
   binaryName |-> [ffmpeg |-> "ffmpeg", ffprobe |-> "ffprobe"]],
  [platform |-> "linux",  arch |-> "arm64", identifier |-> "linux-arm64",
   binaryName |-> [ffmpeg |-> "ffmpeg", ffprobe |-> "ffprobe"]] >>

SUPPORTED_PLATFORMS == <<
  [platform |-> "win32",  arch |-> "x64",   identifier |-> "win32-x64",
   binaryName |-> [ffmpeg |-> "ffmpeg.exe", ffprobe |-> "ffprobe.exe"]],
  [platform |-> "win32",  arch |-> "ia32",  identifier |-> "win32-ia32",
   binaryName |-> [ffmpeg |-> "ffmpeg.exe", ffprobe |-> "ffprobe.exe"]],
  [platform |-> "darwin", arch |-> "x64",   identifier |-> "darwin-x64",
   binaryName |-> [ffmpeg |-> "ffmpeg", ffprobe |-> "ffprobe"]],
  [platform |-> "darwin", arch |-> "arm64", identifier |-> "darwin-arm64",
   binaryName |-> [ffmpeg |-> "ffmpeg", ffprobe |-> "ffprobe"]],
  [platform |-> "linux",  arch |-> "x64",   identifier |-> "linux-x64",
   binaryName |-> [ffmpeg |-> "ffmpeg", ffprobe |-> "ffprobe"]],
  [platform |-> "linux",  arch |-> "ia32",  identifier |-> "linux-ia32",
   binaryName |-> [ffmpeg |-> "ffmpeg", ffprobe |-> "ffprobe"]],
  [platform |-> "linux",  arch |-> "arm",   identifier |-> "linux-arm",
   binaryName |-> [ffmpeg |-> "ffmpeg", ffprobe |-> "ffprobe"]],
  [platform |-> "linux",  arch |-> "arm64", identifier |-> "linux-arm64",
   binaryName |-> [ffmpeg |-> "ffmpeg", ffprobe |-> "ffprobe"]] >>

\* the table of the variant that also registers linux/ppc64
SUPPORTED_PLATFORMS_PPC64 ==
  Append(SUPPORTED_PLATFORMS,
    [platform |-> "linux",  arch |-> "ppc64", identifier |-> "linux-ppc64",
     binaryName |-> [ffmpeg |-> "ffmpeg", ffprobe |-> "ffprobe"]])

\* every variant of the table found in the sources
RegistryVariants == { SUPPORTED_PLATFORMS, SUPPORTED_PLATFORMS_PPC64 }

\* "no PlatformInfo" (the null of find(...) || null)
NoPlatform ==
  [platform |-> "", arch |-> "", identifier |-> "",
   binaryName |-> [ffmpeg |-> "", ffprobe |-> ""]]

(***************************************************************************)
(* Inputs of the model: the hosts the installer runs on, the values of the *)
(* --platform= argument ("" when the flag is not given) and the answers    *)
(* typed at the prompt.                                                    *)
(***************************************************************************)
Hosts == { [platform |-> "linux",   arch |-> "x64"],
           [platform |-> "win32",   arch |-> "x64"],
           [platform |-> "freebsd", arch |-> "x64"] }

PlatformArgs == {"", "--platform=win32-x64", "--platform=freebsd-x64"}

Answers == {"", "1", "2", "3", "x"}

\* every identifier an invocation of the model can name
Identifiers == {"linux-x64", "win32-x64", "freebsd-x64"}

BinaryNames == {"ffmpeg", "ffprobe", "ffmpeg.exe", "ffprobe.exe"}

(***************************************************************************)
(* paths.ts                                                                *)
(***************************************************************************)
RECURSIVE findFrom(_, _, _)
\* Array.prototype.find over SUPPORTED_PLATFORMS: the first match, or null
findFrom(i, key, byId) ==
  IF i > Len(SUPPORTED_PLATFORMS) THEN NoPlatform
  ELSE LET p == SUPPORTED_PLATFORMS[i]
       IN  IF (IF byId THEN p.identifier = key
                       ELSE p.platform = key.platform /\ p.arch = key.arch)
           THEN p
           ELSE findFrom(i + 1, key, byId)

getCurrentPlatform(h) == findFrom(1, h, FALSE)

getPlatformByIdentifier(identifier) == findFrom(1, identifier, TRUE)

getPlatformDir(platformIdentifier) == pathJoin(BINARIES_DIR, platformIdentifier)

\* getBinaryPath that takes the kind as the file name on every platform
getBinaryPath_plainName(platformIdentifier, binary) ==
  IF getPlatformByIdentifier(platformIdentifier) = NoPlatform
  THEN [threw |-> TRUE, path |-> ""]
  ELSE [threw |-> FALSE,
        path  |-> pathJoin(pathJoin(BINARIES_DIR, platformIdentifier), binary)]

\* the result of getBinaryPath, threw = TRUE for "Unsupported platform"
getBinaryPath(platformIdentifier, binary) ==
  LET platform == getPlatformByIdentifier(platformIdentifier)
  IN  IF platform = NoPlatform
      THEN [threw |-> TRUE, path |-> ""]
      ELSE [threw |-> FALSE,
            path  |-> pathJoin(pathJoin(BINARIES_DIR, platformIdentifier),
                               platform.binaryName[binary])]

(***************************************************************************)
(* downloader.ts: names and URLs                                           *)
(***************************************************************************)
getGitHubReleaseUrl(platformIdentifier, binaryName) ==
  "https://github.com/" \o GITHUB_REPO \o "/releases/download/"
     \o GITHUB_RELEASE_TAG \o "/" \o platformIdentifier \o "-" \o binaryName

isWindowsId(platformIdentifier) == startsWith(platformIdentifier, "win32")

\* file names that never carry the .exe suffix
binaryFileName_noExe(platformIdentifier, kind) == kind

\* ffmpegName / ffprobeName of downloadBinaries
binaryFileName(platformIdentifier, kind) ==
  IF isWindowsId(platformIdentifier) THEN kind \o ".exe" ELSE kind

destPath(platformIdentifier, kind) ==
  pathJoin(getPlatformDir(platformIdentifier),
           binaryFileName(platformIdentifier, kind))

Paths == { pathJoin(pathJoin(BINARIES_DIR, id), n) :
             id \in Identifiers, n \in BinaryNames }

(***************************************************************************)
(* Files.  A file is absent or holds the bytes served at some URL, either  *)
(* all of them ("full"), a proper prefix ("partial") or none ("empty").    *)
(***************************************************************************)
NoFile == [exists |-> FALSE, url |-> "", part |-> "empty", mode |-> 0]

(***************************************************************************)
(* The config file.  state is                                              *)
(*   "absent"      no file at CONFIG_FILE_PATH                             *)
(*   "unreadable"  a file that cannot be read or written (EACCES, EISDIR)  *)
(*   "garbage"     a text JSON.parse rejects (also an empty or cut file)   *)
(*   "null"        the text  null                                          *)
(*   "array"       the text  []                                            *)
(*   "emptyobj"    the text  {}                                            *)
(*   "nullplat"    the text  {"platforms": null}                           *)
(*   "config"      a ConfigFile {platforms, lastUpdated}                   *)
(* platforms maps an identifier to a map from kinds to ConfigBinaryInfo.   *)
(***************************************************************************)
EmptyMap == [k \in {} |-> 0]

ConfigDoc(st, plats, upd) ==
  [state |-> st, platforms |-> plats, lastUpdated |-> upd]

OtherDoc(st) == ConfigDoc(st, EmptyMap, 0)

ConfigStates == {"absent", "unreadable", "garbage", "null", "array",
                 "emptyobj", "nullplat", "config"}

existsSync(doc) == doc.state # "absent"

\* fs.readFile(CONFIG_FILE_PATH, 'utf8') followed by JSON.parse: does it throw
readParseThrows(doc) == doc.state \in {"absent", "unreadable", "garbage"}

\* config.platforms[platformIdentifier] raises a TypeError when the parsed
\* value is null or has no object under "platforms"
platformsLookupThrows(doc) ==
  doc.state \in {"null", "array", "emptyobj", "nullplat"}

\* verifyConfig that only looks whether the file exists
verifyConfig_existsOnly(doc) == existsSync(doc)

\* verify.ts verifyConfig: the file exists and JSON.parse accepts it
verifyConfig(doc) ==
  IF ~existsSync(doc) THEN FALSE
  ELSE ~readParseThrows(doc)

\* updateConfig lines 156-174: the existing config, or a new one
readConfigOrNew(doc, t) ==
  IF existsSync(doc)
  THEN IF readParseThrows(doc) THEN ConfigDoc("config", EmptyMap, t) ELSE doc
  ELSE ConfigDoc("config", EmptyMap, t)

ConfigBinaryInfo(platformIdentifier, name) ==
  [version      |-> GITHUB_RELEASE_TAG,
   url          |-> getGitHubReleaseUrl(platformIdentifier, name),
   relativePath |-> name]

\* obj[key] = value on a map
MapSet(m, key, value) ==
  [k \in (DOMAIN m) \cup {key} |-> IF k = key THEN value ELSE m[k]]

\* mergeConfig that starts from an empty platforms object
mergeConfig_fresh(doc, platformIdentifier, installOptions, t) ==
  LET p1 == IF installOptions.ffmpeg
            THEN MapSet(EmptyMap, "ffmpeg",
                   ConfigBinaryInfo(platformIdentifier,
                                    binaryFileName(platformIdentifier, "ffmpeg")))
            ELSE EmptyMap
      p2 == IF installOptions.ffprobe
            THEN MapSet(p1, "ffprobe",
                   ConfigBinaryInfo(platformIdentifier,
                                    binaryFileName(platformIdentifier, "ffprobe")))
            ELSE p1
  IN  ConfigDoc("config", MapSet(EmptyMap, platformIdentifier, p2), t)

\* updateConfig lines 176-198 on a value whose platforms is an object
mergeConfig(doc, platformIdentifier, installOptions, t) ==
  LET p0 == IF platformIdentifier \in DOMAIN doc.platforms
            THEN doc.platforms[platformIdentifier]
            ELSE EmptyMap
      p1 == IF installOptions.ffmpeg
            THEN MapSet(p0, "ffmpeg",
                   ConfigBinaryInfo(platformIdentifier,
                                    binaryFileName(platformIdentifier, "ffmpeg")))
            ELSE p0
      p2 == IF installOptions.ffprobe
            THEN MapSet(p1, "ffprobe",
                   ConfigBinaryInfo(platformIdentifier,
                                    binaryFileName(platformIdentifier, "ffprobe")))
            ELSE p1
  IN  ConfigDoc("config", MapSet(doc.platforms, platformIdentifier, p2), t)

\* ensureDir(dirname) and fs.promises.writeFile(path, text): the file after
\* the call.  "ok" writes the text, "failOpen" (the directory cannot be made
\* or the file cannot be opened) leaves the file as it was, "failWrite" (the
\* write breaks after the file was truncated) leaves a cut file.  A file
\* that cannot be opened never gets written.
WriteOutcomes == {"ok", "failOpen", "failWrite"}

writeFileResult(old, new, result) ==
  IF old.state = "unreadable" \/ result = "failOpen" THEN old
  ELSE IF result = "failWrite" THEN OtherDoc("garbage")
  ELSE new

writeFileThrows(old, result) == old.state = "unreadable" \/ result # "ok"

(***************************************************************************)
(* index.ts: the Runtime Accessor                                          *)
(***************************************************************************)
Undefined == [defined |-> FALSE, path |-> "", version |-> "", url |-> ""]

\* verify.ts verifyFile: statSync(path).isFile()
verifyFile(fs, path) == path \in DOMAIN fs /\ fs[path].exists

Threw == [threw |-> TRUE, ffmpeg |-> Undefined, ffprobe |-> Undefined,
          platform |-> "", arch |-> ""]

\* getInstalledBinaries that leaves out verifyFile
getInstalledBinaries_noVerify(h, doc, fs) ==
  LET currentPlatform == getCurrentPlatform(h)
      id == currentPlatform.identifier
      info(kind) ==
        LET bp == getBinaryPath(id, kind)
        IN  IF kind \in DOMAIN doc.platforms[id]
            THEN [defined |-> TRUE, path |-> bp.path,
                  version |-> doc.platforms[id][kind].version,
                  url     |-> doc.platforms[id][kind].url]
            ELSE Undefined
  IN  IF currentPlatform = NoPlatform THEN Threw
      ELSE IF ~existsSync(doc) THEN Threw
      ELSE IF readParseThrows(doc) THEN Threw
      ELSE IF platformsLookupThrows(doc) THEN Threw
      ELSE IF id \notin DOMAIN doc.platforms THEN Threw
      ELSE [threw |-> FALSE, ffmpeg |-> info("ffmpeg"),
            ffprobe |-> info("ffprobe"),
            platform |-> currentPlatform.platform,
            arch |-> currentPlatform.arch]

getInstalledBinaries(h, doc, fs) ==
  LET currentPlatform == getCurrentPlatform(h)
      id == currentPlatform.identifier
      info(kind) ==
        LET bp == getBinaryPath(id, kind)
        IN  IF kind \in DOMAIN doc.platforms[id] /\ verifyFile(fs, bp.path)
            THEN [defined |-> TRUE, path |-> bp.path,
                  version |-> doc.platforms[id][kind].version,
                  url     |-> doc.platforms[id][kind].url]
            ELSE Undefined
  IN  IF currentPlatform = NoPlatform THEN Threw
      ELSE IF ~existsSync(doc) THEN Threw
      ELSE IF readParseThrows(doc) THEN Threw
      ELSE IF platformsLookupThrows(doc) THEN Threw
      ELSE IF id \notin DOMAIN doc.platforms THEN Threw
      ELSE [threw |-> FALSE, ffmpeg |-> info("ffmpeg"),
            ffprobe |-> info("ffprobe"),
            platform |-> currentPlatform.platform,
            arch |-> currentPlatform.arch]

(***************************************************************************)
(* The archive-extracting downloader: strings and paths                    *)
(***************************************************************************)
RECURSIVE lastIndexOf(_, _, _)
\* the largest index <= i at which the character c stands in s, 0 when none
lastIndexOf(s, c, i) ==
  IF i < 1 THEN 0
  ELSE IF SubSeq(s, i, i) = c THEN i
  ELSE lastIndexOf(s, c, i - 1)

\* path.basename of a relative path with forward slashes
basename(p) == SubSeq(p, lastIndexOf(p, "/", Len(p)) + 1, Len(p))

\* path.dirname of a relative path, "." for a name without a directory
dirname(p) ==
  LET i == lastIndexOf(p, "/", Len(p))
  IN  IF i = 0 THEN "." ELSE SubSeq(p, 1, i - 1)

RECURSIVE countChar(_, _, _)
countChar(s, c, i) ==
  IF i > Len(s) THEN 0
  ELSE (IF SubSeq(s, i, i) = c THEN 1 ELSE 0) + countChar(s, c, i + 1)

\* the number of directories between the searched root and the file
depthOf(p) == countChar(p, "/", 1)

endsWith(s, suffix) ==
  Len(s) >= Len(suffix) /\ SubSeq(s, Len(s) - Len(suffix) + 1, Len(s)) = suffix

lowerChar(c) ==
  CASE c = "A" -> "a" [] c = "B" -> "b" [] c = "C" -> "c" [] c = "D" -> "d"
    [] c = "E" -> "e" [] c = "F" -> "f" [] c = "G" -> "g" [] c = "H" -> "h"
    [] c = "I" -> "i" [] c = "J" -> "j" [] c = "K" -> "k" [] c = "L" -> "l"
    [] c = "M" -> "m" [] c = "N" -> "n" [] c = "O" -> "o" [] c = "P" -> "p"
    [] c = "Q" -> "q" [] c = "R" -> "r" [] c = "S" -> "s" [] c = "T" -> "t"
    [] c = "U" -> "u" [] c = "V" -> "v" [] c = "W" -> "w" [] c = "X" -> "x"
    [] c = "Y" -> "y" [] c = "Z" -> "z" [] OTHER -> c

RECURSIVE lowerFrom(_, _)
lowerFrom(s, i) ==
  IF i > Len(s) THEN ""
  ELSE lowerChar(SubSeq(s, i, i)) \o lowerFrom(s, i + 1)

\* String.prototype.toLowerCase
toLowerCase(s) == lowerFrom(s, 1)

\* the directory dir (relative to the searched root, "." for the root) is
\* the directory of the file at p or one of its ancestors
isUnder(p, dir) == dir = "." \/ startsWith(p, dir \o "/")

(***************************************************************************)
(* constants.ts: DOWNLOAD_SOURCES.  A source without ffprobePath (null)    *)
(* has ffprobePath = "", a source without secondaryDownload has its url    *)
(* empty.                                                                  *)
(***************************************************************************)
NoSecondary == [url |-> "", format |-> "", path |-> ""]

EvermeetSecondary ==
  [url    |-> "https://evermeet.cx/ffmpeg/ffprobe-7.0.2.zip",
   format |-> "zip",
   path   |-> "ffprobe"]

DownloadSource(u, f, mp, pp, v, sec) ==
  [url |-> u, format |-> f, ffmpegPath |-> mp, ffprobePath |-> pp,
   version |-> v, secondaryDownload |-> sec]

JohnVanSickle(arch) ==
  DownloadSource("https://johnvansickle.com/ffmpeg/releases/ffmpeg-release-"
                    \o arch \o "-static.tar.xz",
                 "tar.xz", "ffmpeg", "ffprobe", "release", NoSecondary)

SourceIdentifiers ==
  {"win32-x64", "win32-ia32", "darwin-x64", "darwin-arm64",
   "linux-x64", "linux-ia32", "linux-arm", "linux-arm64"}

DOWNLOAD_SOURCES ==
  [id \in SourceIdentifiers |->
     CASE id = "win32-x64" ->
            DownloadSource("https://github.com/BtbN/FFmpeg-Builds/releases/download/latest/ffmpeg-master-latest-win64-gpl.zip",
                           "zip", "bin/ffmpeg.exe", "bin/ffprobe.exe",
                           "latest", NoSecondary)
       [] id = "win32-ia32" ->
            DownloadSource("https://github.com/GyanD/codexffmpeg/releases/download/6.1.1/ffmpeg-6.1.1-essentials_build.zip",
                           "zip", "bin/ffmpeg.exe", "bin/ffprobe.exe",
                           "6.1.1", NoSecondary)
       [] id \in {"darwin-x64", "darwin-arm64"} ->
            DownloadSource("https://evermeet.cx/ffmpeg/ffmpeg-7.0.2.zip",
                           "zip", "ffmpeg", "", "7.0.2", EvermeetSecondary)
       [] id = "linux-x64"   -> JohnVanSickle("amd64")
       [] id = "linux-ia32"  -> JohnVanSickle("i686")
       [] id = "linux-arm"   -> JohnVanSickle("armhf")
       [] id = "linux-arm64" -> JohnVanSickle("arm64")]

(***************************************************************************)
(* The archive-extracting downloader: the temporary directory.  A regular  *)
(* file in it is [path, origin, part, mode]: its path relative to the      *)
(* directory, the URL its bytes came from, how much of them it holds and   *)
(* its permission bits.  An archive is the set of [path, mode] it holds.   *)
(***************************************************************************)
ArchiveFile(p, m) == [path |-> p, mode |-> m]

\* what the archive served at a URL may hold
ArchiveListings ==
  { { ArchiveFile("ffmpeg", NewFileMode), ArchiveFile("ffprobe", NewFileMode) },
    { ArchiveFile("ffmpeg-static/ffmpeg", ExecMode),
      ArchiveFile("ffmpeg-static/ffprobe", ExecMode) },
    { ArchiveFile("bin/ffmpeg.exe", NewFileMode),
      ArchiveFile("bin/ffprobe.exe", NewFileMode) },
    { ArchiveFile("doc/FFmpeg", NewFileMode),
      ArchiveFile("ffmpeg", ExecMode) },
    { ArchiveFile("README.txt", NewFileMode) } }

\* the files an extraction of the listing, fetched from url, writes
extracted(listing, url) ==
  { [path |-> f.path, origin |-> url \o "#" \o f.path, part |-> "full",
     mode |-> f.mode] : f \in listing }

\* dir gets the files of new, which replace the files of the same path
writeInto(dir, new) ==
  { e \in dir : \A n \in new : n.path # e.path } \cup new

hasPath(dir, p) == \E e \in dir : e.path = p

\* the directories of a tree of files, "." being its root
RECURSIVE ancestors(_)
ancestors(p) ==
  IF dirname(p) = "." THEN {"."}
  ELSE {dirname(p)} \cup ancestors(dirname(p))

directoriesOf(dir) == {"."} \cup UNION { ancestors(e.path) : e \in dir }

\* the orders in which readdir may list the members of a set
RECURSIVE Orders(_)
Orders(S) ==
  IF S = {} THEN { << >> }
  ELSE UNION { { << x >> \o rest : rest \in Orders(S \ {x}) } : x \in S }

\* findBinaryInDirectory lines 146-162: the loop over the queue.  The head
\* of the queue is read; an unreadable directory is skipped; a regular file
\* in it whose name is searchName ignoring case is returned; its
\* subdirectories are appended to the queue in the order readdir gives.
\* The result is the set of paths the loop may return, {""} for null.
RECURSIVE searchQueue(_, _, _, _)
searchQueue(queue, dir, searchName, unreadable) ==
  IF queue = << >> THEN {""}
  ELSE LET currentPath == Head(queue)
           hits == { e.path : e \in
                       { f \in dir :
                           /\ dirname(f.path) = currentPath
                           /\ toLowerCase(basename(f.path)) =
                                toLowerCase(searchName) } }
           subdirs == { d \in directoriesOf(dir) \ {"."} :
                          dirname(d) = currentPath }
       IN  IF currentPath \in unreadable
           THEN searchQueue(Tail(queue), dir, searchName, unreadable)
           ELSE IF hits # {} THEN hits
           ELSE UNION { searchQueue(Tail(queue) \o order, dir, searchName,
                                    unreadable) : order \in Orders(subdirs) }

\* findBinaryInDirectory lines 133-165: the paths the breadth-first search
\* may return, {""} when it returns null.  hostPlatform is process.platform;
\* the directories in unreadable make readdir fail.
findBinaryInDirectory(dir, binaryName, hostPlatform, unreadable) ==
  LET isWindows == hostPlatform = "win32"
      searchName == IF isWindows
                    THEN IF endsWith(binaryName, ".exe") THEN binaryName
                         ELSE binaryName \o ".exe"
                    ELSE binaryName
  IN  searchQueue(<< "." >>, dir, searchName, unreadable)

\* part_004 updateConfig lines 340-355: the entry recorded for a kind
SourceBinaryInfo(downloadSource, kind) ==
  [version      |-> downloadSource.version,
   url          |-> downloadSource.url,
   relativePath |-> IF kind = "ffmpeg" THEN downloadSource.ffmpegPath
                    ELSE downloadSource.ffprobePath]

\* part_004 updateConfig lines 328-357 on a value whose platforms is an
\* object
mergeSourceConfig(doc, platformIdentifier, downloadSource, installOptions, t) ==
  LET p0 == IF platformIdentifier \in DOMAIN doc.platforms
            THEN doc.platforms[platformIdentifier]
            ELSE EmptyMap
      p1 == IF installOptions.ffmpeg
            THEN MapSet(p0, "ffmpeg", SourceBinaryInfo(downloadSource, "ffmpeg"))
            ELSE p0
      p2 == IF installOptions.ffprobe
            THEN MapSet(p1, "ffprobe",
                        SourceBinaryInfo(downloadSource, "ffprobe"))
            ELSE p1
  IN  ConfigDoc("config", MapSet(doc.platforms, platformIdentifier, p2), t)

(***************************************************************************)
(* State                                                                   *)
(***************************************************************************)
VARIABLES
  config,             \* the file at CONFIG_FILE_PATH
  files,              \* the files under BINARIES_DIR, by path
  dirs,               \* the platform directories that exist
  pc,                 \* where the running invocation of install() is
  host,               \* os.platform(), os.arch() of the invocation
  argv,               \* process.argv.slice(2), by flag
  answer,             \* the line typed at the prompt
  platformIdentifier, \* install(): platformIdentifier
  installOptions,     \* install(): installOptions
  exitCode,           \* exit status of the invocation, -1 while it runs
  requests,           \* URLs requested by the invocation
  wrote,              \* paths opened for writing by the invocation
  atStart,            \* config and files when the invocation started
  outcome,            \* how the invocation ended
  envFailure,         \* the operation the environment failed, "" when none
  repeat,             \* the invocation repeats the previous, successful, one
  runs,               \* number of invocations started
  now,                \* the clock (new Date())
  temp,               \* the files in temp_extract, by identifier
  located,            \* downloadBinaries: ffmpegPath, ffprobePath
  loaded,             \* index.ts: what the module load returned
  cleanupFailed,      \* the removal of tempDir failed in this invocation
  sources,            \* the DOWNLOAD_SOURCES table the downloader is built with
  procs,              \* the other invocations running at the same time
  pending             \* updateConfig: the config value read, until written

vars == << config, files, dirs, pc, host, argv, answer, platformIdentifier,
           installOptions, exitCode, outcome, envFailure, requests, wrote,
           atStart, repeat, runs, now, temp, located, loaded,
           cleanupFailed, sources, procs, pending >>

NoOptions == [ffmpeg |-> FALSE, ffprobe |-> FALSE]

\* no invocation runs beside the one of install()
NoProcs == << >>

\* updateConfig holds no config value
NoPending == [held |-> FALSE, doc |-> OtherDoc("absent")]
NoArgs == [platformArg |-> "", ffmpegOnly |-> FALSE, ffprobeOnly |-> FALSE]
NoHost == [platform |-> "", arch |-> ""]
NoLocated == [ffmpeg |-> "", ffprobe |-> ""]
NotLoaded == [threw |-> FALSE, ffmpeg |-> Undefined, ffprobe |-> Undefined,
              platform |-> "", arch |-> ""]
NoTemp == [id \in SourceIdentifiers \cup Identifiers |-> {}]

InitialConfigs == { OtherDoc(st) : st \in ConfigStates \ {"config"} }

Init ==
  /\ config \in InitialConfigs
  /\ files = [p \in Paths |-> NoFile]
  /\ dirs = {}
  /\ pc = "idle"
  /\ host = NoHost
  /\ argv = NoArgs
  /\ answer = ""
  /\ platformIdentifier = ""
  /\ installOptions = NoOptions
  /\ exitCode = -1
  /\ requests = {}
  /\ wrote = {}
  /\ atStart = [config |-> config, files |-> files]
  /\ outcome = ""
  /\ envFailure = ""
  /\ repeat = FALSE
  /\ runs = 0
  /\ now = 0
  /\ temp = NoTemp
  /\ located = NoLocated
  /\ loaded = NotLoaded
  /\ cleanupFailed = FALSE
  /\ sources = DOWNLOAD_SOURCES
  /\ procs = NoProcs
  /\ pending = NoPending

(***************************************************************************)
(* installer.ts: install()                                                 *)
(***************************************************************************)
\* how an invocation ends: process.exit(1) in the catch block of install(),
\* or the natural end of the process with status 0
Exit(code, how, failure) ==
  /\ pc' = "done"
  /\ exitCode' = code
  /\ outcome' = how
  /\ envFailure' = failure

\* the invocation goes on with the step at
Goto(at) ==
  /\ pc' = at
  /\ UNCHANGED << exitCode, outcome, envFailure >>

\* install() lines 36-40
selectIdentifier(currentPlatform, platformArg) ==
  IF platformArg # "" THEN splitEq1(platformArg)
  ELSE currentPlatform.identifier

\* promptForInstallation: resolve(answer || '1')
promptForInstallation(a) == IF a = "" THEN "1" ELSE a

\* install() lines 52-80: the kinds named by the log line
\* "Installing ... for <identifier>..."
announcedKinds(ffmpegOnlyArg, ffprobeOnlyArg, a) ==
  IF ~ffmpegOnlyArg /\ ~ffprobeOnlyArg
  THEN LET response == promptForInstallation(a)
       IN  IF response = "2" THEN [ffmpeg |-> TRUE, ffprobe |-> FALSE]
           ELSE IF response = "3" THEN [ffmpeg |-> FALSE, ffprobe |-> TRUE]
           ELSE [ffmpeg |-> TRUE, ffprobe |-> TRUE]
  ELSE IF ffmpegOnlyArg THEN [ffmpeg |-> TRUE, ffprobe |-> FALSE]
  ELSE IF ffprobeOnlyArg THEN [ffmpeg |-> FALSE, ffprobe |-> TRUE]
  ELSE [ffmpeg |-> TRUE, ffprobe |-> TRUE]

\* selectOptions that installs ffprobe whenever a flag is given
selectOptions_probeToo(ffmpegOnlyArg, ffprobeOnlyArg, a) ==
  IF ~ffmpegOnlyArg /\ ~ffprobeOnlyArg
  THEN IF a = "2" THEN [ffmpeg |-> TRUE, ffprobe |-> FALSE]
       ELSE IF a = "3" THEN [ffmpeg |-> FALSE, ffprobe |-> TRUE]
       ELSE [ffmpeg |-> TRUE, ffprobe |-> TRUE]
  ELSE [ffmpeg |-> ffmpegOnlyArg, ffprobe |-> TRUE]

\* install() lines 42-81: the kinds to install
selectOptions(ffmpegOnlyArg, ffprobeOnlyArg, a) ==
  IF ~ffmpegOnlyArg /\ ~ffprobeOnlyArg
  THEN LET response == promptForInstallation(a)
       IN  IF response = "2" THEN [ffmpeg |-> TRUE, ffprobe |-> FALSE]
           ELSE IF response = "3" THEN [ffmpeg |-> FALSE, ffprobe |-> TRUE]
           ELSE [ffmpeg |-> TRUE, ffprobe |-> TRUE]
  ELSE [ffmpeg  |-> ffmpegOnlyArg \/ (~ffmpegOnlyArg /\ ~ffprobeOnlyArg),
        ffprobe |-> ffprobeOnlyArg \/ (~ffmpegOnlyArg /\ ~ffprobeOnlyArg)]

\* A new process is started: node dist/installer.js [flags], on one of the
\* hosts, with one of the --platform= arguments and one of the answers
Start(hosts, platformArgs, answers) ==
  /\ pc \in {"idle", "done"}
  /\ runs < MaxRuns
  /\ \E h \in hosts, pa \in platformArgs, fm \in BOOLEAN, fp \in BOOLEAN,
        a \in answers :
       \* nothing is typed when no prompt is shown
       /\ (fm \/ fp) => a = ""
       /\ host' = h
       /\ argv' = [platformArg |-> pa, ffmpegOnly |-> fm, ffprobeOnly |-> fp]
       /\ answer' = a
       /\ repeat' = /\ outcome = "installed"
                    /\ getCurrentPlatform(h) # NoPlatform
                    /\ platformIdentifier =
                         selectIdentifier(getCurrentPlatform(h), pa)
                    /\ installOptions = selectOptions(fm, fp, a)
  /\ pc' = "init"
  /\ runs' = runs + 1
  /\ now' = now + 1
  /\ exitCode' = -1
  /\ outcome' = ""
  /\ envFailure' = ""
  /\ platformIdentifier' = ""
  /\ installOptions' = NoOptions
  /\ requests' = {}
  /\ wrote' = {}
  /\ atStart' = [config |-> config, files |-> files]
  /\ located' = NoLocated
  /\ cleanupFailed' = FALSE
  /\ UNCHANGED << config, files, dirs, temp, loaded, sources, procs, pending >>

Invoke == Start(Hosts, PlatformArgs, Answers)

\* install() lines 16-19: verifyConfig, and createInitialConfig when it fails
InitConfig ==
  /\ pc = "init"
  /\ IF verifyConfig(config)
     THEN /\ Goto("resolve")
          /\ UNCHANGED config
     ELSE \E o \in WriteOutcomes :
            /\ config' = writeFileResult(config,
                           ConfigDoc("config", EmptyMap, now), o)
            /\ IF writeFileThrows(config, o)
               THEN Exit(1, "failed", "write")
               ELSE Goto("resolve")
  /\ UNCHANGED << files, dirs, host, argv, answer, platformIdentifier,
                  installOptions, requests, wrote, atStart, repeat,
                  runs, now, temp, located, loaded,
                  cleanupFailed, sources, procs, pending >>

\* install() lines 21-81: the host platform, the flags and the prompt
ResolvePlatform ==
  /\ pc = "resolve"
  /\ LET currentPlatform == getCurrentPlatform(host)
     IN  IF currentPlatform = NoPlatform
         THEN /\ Exit(0, "unsupported", "")
              /\ UNCHANGED << platformIdentifier, installOptions >>
         ELSE /\ platformIdentifier' =
                   selectIdentifier(currentPlatform, argv.platformArg)
              /\ installOptions' =
                   selectOptions(argv.ffmpegOnly, argv.ffprobeOnly, answer)
              /\ Goto("prepare")
  /\ UNCHANGED << config, files, dirs, host, argv, answer, requests, wrote,
                  atStart, repeat,
                  runs, now, temp, located, loaded,
                  cleanupFailed, sources, procs, pending >>

(***************************************************************************)
(* downloader.ts: downloadBinaries()                                       *)
(***************************************************************************)
\* the step after the kind k has been installed or skipped
stageAfter(k, options) ==
  IF k = "start"
  THEN IF options.ffmpeg THEN "download_ffmpeg"
       ELSE IF options.ffprobe THEN "download_ffprobe" ELSE "update"
  ELSE IF k = "ffmpeg"
  THEN IF options.ffprobe THEN "download_ffprobe" ELSE "update"
  ELSE "update"

\* downloadBinaries lines 96-102: ensureDir(platformDir).  mkdir may fail
\* when the directory is not there yet.
PrepareDir ==
  /\ pc = "prepare"
  /\ LET platformDir == getPlatformDir(platformIdentifier)
     IN  IF platformDir \in dirs
         THEN /\ Goto(stageAfter("start", installOptions))
              /\ UNCHANGED dirs
         ELSE \E ok \in BOOLEAN :
                IF ok
                THEN /\ dirs' = dirs \cup {platformDir}
                     /\ Goto(stageAfter("start", installOptions))
                ELSE /\ Exit(1, "failed", "mkdir")
                     /\ UNCHANGED dirs
  /\ UNCHANGED << config, files, host, argv, answer, platformIdentifier,
                  installOptions, requests, wrote, atStart, repeat,
                  runs, now, temp, located, loaded,
                  cleanupFailed, sources, procs, pending >>

\* how a GET ends: the whole body arrives, the request fails (connection
\* error or non-2xx status), or the body stream breaks after it has started
FetchOutcomes == {"ok", "error", "broken"}

\* downloadFile lines 17-80: the file at destPath after the call.
\* createWriteStream(destPath) creates or truncates the file before any
\* request is made; the body is piped into it.
downloadFile(old, url, result, newMode) ==
  [exists |-> TRUE,
   url    |-> IF result = "error" THEN "" ELSE url,
   part   |-> IF result = "ok" THEN "full"
              ELSE IF result = "broken" THEN "partial" ELSE "empty",
   mode   |-> IF old.exists THEN old.mode ELSE newMode]

\* downloadBinaries lines 107-113 and 121-127: fetch one kind
Download ==
  \E k \in Kinds :
    /\ pc = "download_" \o k
    /\ LET name == binaryFileName(platformIdentifier, k)
           url  == getGitHubReleaseUrl(platformIdentifier, name)
           dest == pathJoin(getPlatformDir(platformIdentifier), name)
       IN  \E o \in FetchOutcomes :
             /\ files' = [files EXCEPT ![dest] =
                                     downloadFile(@, url, o, NewFileMode)]
             /\ requests' = requests \cup {url}
             /\ wrote' = wrote \cup {dest}
             /\ IF o = "ok"
                THEN Goto(IF isWindowsId(platformIdentifier)
                          THEN stageAfter(k, installOptions)
                          ELSE "chmod_" \o k)
                ELSE IF o = "error"
                THEN Exit(1, "failed", "fetch")
                ELSE /\ pc' = "hung"
                     /\ envFailure' = "stream"
                     /\ UNCHANGED << exitCode, outcome >>
    /\ UNCHANGED << config, dirs, host, argv, answer, platformIdentifier,
                    installOptions, atStart, repeat,
                  runs, now, temp, located, loaded,
                  cleanupFailed, sources, procs, pending >>

\* makeExecutable that adds 0o755 to the mode instead of or-ing it
makeExecutable_add(f) == [f EXCEPT !.mode = f.mode + ExecMode]

\* verify.ts makeExecutable lines 54-64: the mode after chmod
makeExecutable(f) == [f EXCEPT !.mode = BitOr(f.mode, ExecMode)]

\* downloadBinaries lines 115-118 and 129-132
MakeExecutable ==
  \E k \in Kinds :
    /\ pc = "chmod_" \o k
    /\ LET dest == destPath(platformIdentifier, k)
       IN  \E ok \in BOOLEAN :
             IF ok
             THEN /\ files' = [files EXCEPT ![dest] = makeExecutable(@)]
                  /\ Goto(stageAfter(k, installOptions))
             ELSE /\ Exit(1, "failed", "chmod")
                  /\ UNCHANGED files
    /\ UNCHANGED << config, dirs, host, argv, answer, platformIdentifier,
                    installOptions, requests, wrote, atStart, repeat,
                  runs, now, temp, located, loaded,
                  cleanupFailed, sources, procs, pending >>

\* updateConfig lines 151-203: the config file after the call
updateConfig(doc, id, options, t, result) ==
  LET cur == readConfigOrNew(doc, t)
  IN  IF platformsLookupThrows(cur) THEN doc
      ELSE writeFileResult(doc, mergeConfig(cur, id, options, t), result)

updateConfigThrows(doc, t, result) ==
  \/ platformsLookupThrows(readConfigOrNew(doc, t))
  \/ writeFileThrows(doc, result)

\* the write of updateConfig was reached and failed
updateConfigWriteFailed(doc, t, result) ==
  /\ ~platformsLookupThrows(readConfigOrNew(doc, t))
  /\ writeFileThrows(doc, result)

\* downloadBinaries lines 135-145: record the install
UpdateConfig ==
  /\ pc = "update"
  /\ \E o \in WriteOutcomes :
       /\ config' = updateConfig(config, platformIdentifier, installOptions,
                                 now, o)
       /\ IF updateConfigThrows(config, now, o)
          THEN Exit(1, "failed",
                    IF updateConfigWriteFailed(config, now, o)
                    THEN "write" ELSE "")
          ELSE Exit(0, "installed", "")
  /\ UNCHANGED << files, dirs, host, argv, answer, platformIdentifier,
                  installOptions, requests, wrote, atStart, repeat,
                  runs, now, temp, located, loaded,
                  cleanupFailed, sources, procs, pending >>

\* A body stream that breaks leaves the promise of downloadFile pending:
\* pipe() does not end the writer, so neither 'finish' nor 'error' fires.
\* Nothing keeps the event loop alive and the process ends with status 0.
EventLoopDrained ==
  /\ pc = "hung"
  /\ Exit(0, "hung", envFailure)
  /\ UNCHANGED << config, files, dirs, host, argv, answer, platformIdentifier,
                  installOptions, requests, wrote, atStart, repeat,
                  runs, now, temp, located, loaded,
                  cleanupFailed, sources, procs, pending >>

Next ==
  \/ Invoke
  \/ InitConfig
  \/ ResolvePlatform
  \/ PrepareDir
  \/ Download
  \/ MakeExecutable
  \/ UpdateConfig
  \/ EventLoopDrained

Spec == Init /\ [][Next]_vars


(***************************************************************************)
(* The Config Store on its own: updateConfig and verifyConfig applied to   *)
(* every file content, identifier and set of kinds.  Entries left by an    *)
(* earlier release of the package carry its tag.                           *)
(***************************************************************************)
EARLIER_RELEASE_TAG == "v0.9.0"

EarlierBinaryInfo(id, name) ==
  [version      |-> EARLIER_RELEASE_TAG,
   url          |-> "https://github.com/" \o GITHUB_REPO
                      \o "/releases/download/" \o EARLIER_RELEASE_TAG \o "/"
                      \o id \o "-" \o name,
   relativePath |-> name]

EntryChoices(id, k) ==
  { ConfigBinaryInfo(id, binaryFileName(id, k)),
    EarlierBinaryInfo(id, binaryFileName(id, k)) }

PlatformConfigs(id) ==
  UNION { { f \in [S -> UNION { EntryChoices(id, k) : k \in Kinds }] :
              \A k \in S : f[k] \in EntryChoices(id, k) } :
          S \in SUBSET Kinds }

StoredPlatforms ==
  UNION { { m \in [D -> UNION { PlatformConfigs(id) : id \in Identifiers }] :
              \A id \in D : m[id] \in PlatformConfigs(id) } :
          D \in SUBSET Identifiers }

StoreDocs ==
  InitialConfigs \cup { ConfigDoc("config", m, 0) : m \in StoredPlatforms }

InitStore ==
  /\ config \in StoreDocs
  /\ files = [p \in Paths |-> NoFile]
  /\ dirs = {}
  /\ \/ /\ pc = "init"
        /\ platformIdentifier = ""
        /\ installOptions = NoOptions
     \/ /\ pc = "update"
        /\ platformIdentifier \in Identifiers
        /\ installOptions \in [ffmpeg : BOOLEAN, ffprobe : BOOLEAN]
  /\ host = NoHost
  /\ argv = NoArgs
  /\ answer = ""
  /\ exitCode = -1
  /\ outcome = ""
  /\ envFailure = ""
  /\ requests = {}
  /\ wrote = {}
  /\ atStart = [config |-> config, files |-> files]
  /\ repeat = FALSE
  /\ runs = 1
  /\ now = 1
  /\ temp = NoTemp
  /\ located = NoLocated
  /\ loaded = NotLoaded
  /\ cleanupFailed = FALSE
  /\ sources = DOWNLOAD_SOURCES
  /\ procs = NoProcs
  /\ pending = NoPending

NextStore ==
  \/ InitConfig
  \/ UpdateConfig

SpecStore == InitStore /\ [][NextStore]_vars

(***************************************************************************)
(* The archive-extracting downloader (part_004): downloadBinaries()        *)
(***************************************************************************)
TEMP_EXTRACT == "temp_extract"

\* tempDir of downloadBinaries
tempDirOf(id) == pathJoin(getPlatformDir(id), TEMP_EXTRACT)

\* downloadPath of downloadBinaries, relative to tempDir
downloadName(downloadSource) == "download." \o downloadSource.format

\* the destination of a kind: platformDir joined with the basename of the
\* path the source gives for it
sourceDest(id, downloadSource, kind) ==
  pathJoin(getPlatformDir(id),
           basename(IF kind = "ffmpeg" THEN downloadSource.ffmpegPath
                    ELSE downloadSource.ffprobePath))

ArchiveIdentifiers == Identifiers \cup {"darwin-x64"}

ArchivePaths == { pathJoin(pathJoin(BINARIES_DIR, id), n) :
                    id \in ArchiveIdentifiers, n \in BinaryNames }

\* a throw that leaves downloadBinaries without running the finally block
Throw_noFinally(failure) ==
  /\ pc' = "done"
  /\ exitCode' = 1
  /\ outcome' = "failed"
  /\ envFailure' = failure

\* an error is thrown inside the try block of downloadBinaries: the catch
\* block rethrows it and the finally block runs first
Throw(failure) ==
  /\ pc' = "a_cleanup"
  /\ outcome' = "failed"
  /\ envFailure' = failure
  /\ UNCHANGED exitCode

\* the step after the kind k has been installed or skipped
archiveStageAfter(k, options) ==
  IF k = "start"
  THEN IF options.ffmpeg THEN "a_ffmpeg"
       ELSE IF options.ffprobe THEN "a_ffprobe" ELSE "a_update"
  ELSE IF k = "ffmpeg"
  THEN IF options.ffprobe THEN "a_ffprobe" ELSE "a_update"
  ELSE "a_update"

\* downloadBinaries lines 176-187: the source of the identifier, platformDir
\* and tempDir.  An error here is thrown before the try block.
ArchivePrepare ==
  /\ pc = "prepare"
  /\ LET platformDir == getPlatformDir(platformIdentifier)
         tempDir == tempDirOf(platformIdentifier)
     IN  IF platformIdentifier \notin DOMAIN sources
         THEN /\ Exit(1, "failed", "")
              /\ UNCHANGED dirs
         ELSE \E o \in {"ok", "failPlatformDir", "failTempDir"} :
                /\ o = "failPlatformDir" => platformDir \notin dirs
                /\ o = "failTempDir" => tempDir \notin dirs
                /\ dirs' = CASE o = "ok" -> dirs \cup {platformDir, tempDir}
                             [] o = "failTempDir" -> dirs \cup {platformDir}
                             [] OTHER -> dirs
                /\ IF o = "ok" THEN Goto("a_fetch")
                   ELSE Exit(1, "failed", "mkdir")
  /\ UNCHANGED << config, files, host, argv, answer, platformIdentifier,
                  installOptions, requests, wrote, atStart, repeat,
                  runs, now, temp, located, loaded,
                  cleanupFailed, sources, procs, pending >>

\* part_004 downloadFile lines 17-87 on downloadPath: createWriteStream
\* creates or truncates the file before any request is made
downloadArchive(url, name, result) ==
  [path   |-> name,
   origin |-> IF result = "error" THEN "" ELSE url,
   part   |-> IF result = "ok" THEN "full"
              ELSE IF result = "broken" THEN "partial" ELSE "empty",
   mode   |-> NewFileMode]

\* downloadBinaries lines 193-195: fetch the archive of the source.  When
\* tempDir is not there any more the write stream cannot open the file; its
\* 'error' event has no listener yet (line 84 attaches it after the
\* response) and ends the process.
ArchiveFetch ==
  /\ pc = "a_fetch"
  /\ LET downloadSource == sources[platformIdentifier]
     IN  IF tempDirOf(platformIdentifier) \notin dirs
         THEN /\ Exit(1, "failed", "fetch")
              /\ requests' = requests \cup {downloadSource.url}
              /\ UNCHANGED temp
         ELSE \E o \in FetchOutcomes :
           /\ temp' = [temp EXCEPT ![platformIdentifier] =
                         writeInto(@, {downloadArchive(downloadSource.url,
                                         downloadName(downloadSource), o)})]
           /\ requests' = requests \cup {downloadSource.url}
           /\ IF o = "ok" THEN Goto("a_extract")
              ELSE IF o = "error" THEN Throw("fetch")
              ELSE /\ pc' = "hung"
                   /\ envFailure' = "stream"
                   /\ UNCHANGED << exitCode, outcome >>
  /\ UNCHANGED << config, files, dirs, host, argv, answer, platformIdentifier,
                  installOptions, wrote, atStart, repeat, runs, now,
                  located, loaded,
                  cleanupFailed, sources, procs, pending >>

\* downloadBinaries lines 197-215: extract by format.  A failed extraction
\* may have written the files of the archive already; an archive that is
\* missing or incomplete cannot be extracted or renamed.
ArchiveExtract ==
  /\ pc = "a_extract"
  /\ LET downloadSource == sources[platformIdentifier]
         downloadFormat == downloadSource.format
         ffmpegDest == sourceDest(platformIdentifier, downloadSource,
                                  "ffmpeg")
         archive == CHOOSE e \in temp[platformIdentifier] :
                      e.path = downloadName(downloadSource)
         archiveThere ==
           \E e \in temp[platformIdentifier] :
             e.path = downloadName(downloadSource) /\ e.part = "full"
     IN  IF downloadFormat \in {"zip", "tar.xz", "tar.gz"}
         THEN \E listing \in ArchiveListings, ok \in BOOLEAN,
                 written \in BOOLEAN :
                /\ ok => written
                /\ written => archiveThere
                /\ temp' = [temp EXCEPT ![platformIdentifier] =
                              IF written
                              THEN writeInto(@, extracted(listing,
                                                          downloadSource.url))
                              ELSE @]
                /\ IF ok
                   THEN Goto(archiveStageAfter("start", installOptions))
                   ELSE Throw("extract")
                /\ UNCHANGED << files, wrote >>
         ELSE IF downloadFormat \in {"aar", "pkg"}
         THEN /\ Goto(archiveStageAfter("start", installOptions))
              /\ UNCHANGED << temp, files, wrote >>
         ELSE IF downloadFormat = "binary" /\ installOptions.ffmpeg
         THEN \E ok \in BOOLEAN :
                IF ok /\ hasPath(temp[platformIdentifier],
                                 downloadName(downloadSource))
                THEN /\ temp' = [temp EXCEPT ![platformIdentifier] =
                                   @ \ {archive}]
                     /\ files' = [files EXCEPT ![ffmpegDest] =
                                    [exists |-> TRUE, url |-> archive.origin,
                                     part |-> archive.part,
                                     mode |-> archive.mode]]
                     /\ wrote' = wrote \cup {ffmpegDest}
                     /\ Goto("a_update")
                ELSE /\ Throw("rename")
                     /\ UNCHANGED << temp, files, wrote >>
         ELSE /\ Goto("a_update")
              /\ UNCHANGED << temp, files, wrote >>
  /\ UNCHANGED << config, dirs, host, argv, answer, platformIdentifier,
                  installOptions, requests, atStart, repeat, runs, now,
                  located, loaded,
                  cleanupFailed, sources, procs, pending >>

\* how locating, copying and chmod-ing one binary may end.  A copyFile that
\* fails either could not open the destination or has removed it.
InstallOutcomes == {"ok", "copyFailOpen", "copyFailWrite", "chmodFail"}

\* fs.promises.copyFile(src, dest): the file at dest, with the bytes and
\* the mode of src
copyFile(old, src, result) ==
  IF result = "copyFailOpen" THEN old
  ELSE IF result = "copyFailWrite" THEN NoFile
  ELSE [exists |-> TRUE, url |-> src.origin, part |-> src.part,
        mode |-> src.mode]

\* placeBinary that leaves out the permission step
placeBinary_noChmod(old, src, id, result) == copyFile(old, src, result)

\* downloadBinaries lines 241-249 and 270-278: copy, then makeExecutable
\* unless the identifier is a Windows one
placeBinary(old, src, id, result) ==
  LET copied == copyFile(old, src, result)
  IN  IF result = "ok" /\ ~isWindowsId(id) THEN makeExecutable(copied)
      ELSE copied

\* downloadBinaries lines 222-250 and 252-279: locate, copy and chmod one
\* kind
ArchiveInstall ==
  \E k \in Kinds :
    /\ pc = "a_" \o k
    /\ LET downloadSource == sources[platformIdentifier]
           sourcePath == IF k = "ffmpeg" THEN downloadSource.ffmpegPath
                         ELSE downloadSource.ffprobePath
           dir == temp[platformIdentifier]
           dest == sourceDest(platformIdentifier, downloadSource, k)
           exact == sourcePath # "" /\ hasPath(dir, sourcePath)
       IN  IF exact
           THEN \E o \in InstallOutcomes :
                  LET src == CHOOSE e \in dir : e.path = sourcePath
                  IN  /\ located' = [located EXCEPT ![k] = sourcePath]
                      /\ files' = [files EXCEPT ![dest] =
                           placeBinary(@, src, platformIdentifier, o)]
                      /\ wrote' = wrote \cup {dest}
                      /\ IF o = "ok"
                         THEN Goto(archiveStageAfter(k, installOptions))
                         ELSE Throw(IF o = "chmodFail" THEN "chmod"
                                    ELSE "copy")
           ELSE IF sourcePath = ""
           \* path.basename(null) raises a TypeError
           THEN /\ Throw("")
                /\ UNCHANGED << located, files, wrote >>
           ELSE \E unreadable \in
                     {{}} \cup { {d} : d \in directoriesOf(dir) } :
                \E found \in findBinaryInDirectory(dir, basename(sourcePath),
                                                   host.platform, unreadable) :
                  IF found = ""
                  THEN /\ Throw("")
                       /\ UNCHANGED << located, files, wrote >>
                  ELSE \E o \in InstallOutcomes :
                         LET src == CHOOSE e \in dir : e.path = found
                         IN  /\ located' = [located EXCEPT ![k] = found]
                             /\ files' = [files EXCEPT ![dest] =
                                  placeBinary(@, src, platformIdentifier, o)]
                             /\ wrote' = wrote \cup {dest}
                             /\ IF o = "ok"
                                THEN Goto(archiveStageAfter(k,
                                                            installOptions))
                                ELSE Throw(IF o = "chmodFail" THEN "chmod"
                                           ELSE "copy")
    /\ UNCHANGED << config, dirs, host, argv, answer, platformIdentifier,
                    installOptions, requests, atStart, repeat, runs, now,
                    temp, loaded,
                  cleanupFailed, sources, procs, pending >>

\* part_004 updateConfig lines 309-362: the config file after the call
updateSourceConfig(doc, id, downloadSource, options, t, result) ==
  LET cur == readConfigOrNew(doc, t)
  IN  IF platformsLookupThrows(cur) THEN doc
      ELSE writeFileResult(doc,
             mergeSourceConfig(cur, id, downloadSource, options, t), result)

\* downloadBinaries lines 283-289: record the install
ArchiveUpdateConfig ==
  /\ pc = "a_update"
  /\ \E o \in WriteOutcomes :
       /\ config' = updateSourceConfig(config, platformIdentifier,
                      sources[platformIdentifier], installOptions,
                      now, o)
       /\ IF updateConfigThrows(config, now, o)
          THEN Throw(IF updateConfigWriteFailed(config, now, o)
                     THEN "write" ELSE "")
          ELSE Goto("a_cleanup")
  /\ UNCHANGED << files, dirs, host, argv, answer, platformIdentifier,
                  installOptions, requests, wrote, atStart, repeat,
                  runs, now, temp, located, loaded,
                  cleanupFailed, sources, procs, pending >>

\* downloadBinaries lines 290-299: the finally block removes tempDir; a
\* failure of the removal is only logged.  Then the error, if any, reaches
\* the catch block of install().
ArchiveCleanup ==
  /\ pc = "a_cleanup"
  /\ LET tempDir == tempDirOf(platformIdentifier)
     IN  \E removed \in BOOLEAN :
           /\ tempDir \notin dirs => removed
           /\ cleanupFailed' = ~removed
           /\ IF tempDir \in dirs /\ removed
              THEN /\ temp' = [temp EXCEPT ![platformIdentifier] = {}]
                   /\ dirs' = dirs \ {tempDir}
              ELSE UNCHANGED << temp, dirs >>
  /\ IF outcome = "failed"
     THEN Exit(1, "failed", envFailure)
     ELSE Exit(0, "installed", "")
  /\ UNCHANGED << config, files, host, argv, answer, platformIdentifier,
                  installOptions, requests, wrote, atStart, repeat,
                  runs, now, located, loaded, sources, procs, pending >>

\* the hosts and arguments the archive-extracting installer is run with
ArchiveHosts == { [platform |-> "linux", arch |-> "x64"],
                  [platform |-> "win32", arch |-> "x64"] }

ArchivePlatformArgs ==
  {"", "--platform=darwin-x64", "--platform=freebsd-x64"}

ArchiveInvoke ==
  /\ runs < MaxArchiveRuns
  /\ Start(ArchiveHosts, ArchivePlatformArgs, {""})

\* the config files the archive-extracting installer starts from: none, an
\* object without platforms, and the record of an earlier install of
\* ffprobe for linux-x64
ArchiveInitialConfigs ==
  { OtherDoc("absent"), OtherDoc("emptyobj"),
    ConfigDoc("config",
              [id \in {"linux-x64"} |->
                 [k \in {"ffprobe"} |->
                    SourceBinaryInfo(DOWNLOAD_SOURCES["linux-x64"], k)]],
              0) }

InitArchive ==
  /\ config \in ArchiveInitialConfigs
  /\ files = [p \in ArchivePaths |-> NoFile]
  /\ dirs = {}
  /\ pc = "idle"
  /\ host = NoHost
  /\ argv = NoArgs
  /\ answer = ""
  /\ platformIdentifier = ""
  /\ installOptions = NoOptions
  /\ exitCode = -1
  /\ requests = {}
  /\ wrote = {}
  /\ atStart = [config |-> config, files |-> files]
  /\ outcome = ""
  /\ envFailure = ""
  /\ repeat = FALSE
  /\ runs = 0
  /\ now = 0
  /\ temp = NoTemp
  /\ located = NoLocated
  /\ loaded = NotLoaded
  /\ cleanupFailed = FALSE
  /\ sources = DOWNLOAD_SOURCES
  /\ procs = NoProcs
  /\ pending = NoPending

NextArchive ==
  \/ ArchiveInvoke
  \/ InitConfig
  \/ ResolvePlatform
  \/ ArchivePrepare
  \/ ArchiveFetch
  \/ ArchiveExtract
  \/ ArchiveInstall
  \/ ArchiveUpdateConfig
  \/ ArchiveCleanup
  \/ EventLoopDrained

SpecArchive == InitArchive /\ [][NextArchive]_vars

(***************************************************************************)
(* The Runtime Accessor on its own: the module index.ts is loaded on every *)
(* host, with every config file and with the binaries of the host present, *)
(* empty or missing.                                                       *)
(***************************************************************************)
\* a binary as an install leaves it, and as a failed fetch leaves it
InstalledFile(id, k) ==
  [exists |-> TRUE,
   url    |-> getGitHubReleaseUrl(id, binaryFileName(id, k)),
   part   |-> "full",
   mode   |-> BitOr(NewFileMode, ExecMode)]

EmptyFile == [exists |-> TRUE, url |-> "", part |-> "empty",
              mode |-> NewFileMode]

\* the files under BINARIES_DIR the accessor may meet: the binaries of one
\* of linux-x64 and win32-x64, each installed, empty or missing
AccessorFiles ==
  { [p \in Paths |->
       IF p = destPath(id, "ffmpeg") THEN m
       ELSE IF p = destPath(id, "ffprobe") THEN q
       ELSE NoFile] :
    id \in {"linux-x64", "win32-x64"},
    m \in {NoFile, EmptyFile,
           InstalledFile("linux-x64", "ffmpeg"),
           InstalledFile("win32-x64", "ffmpeg")},
    q \in {NoFile, EmptyFile,
           InstalledFile("linux-x64", "ffprobe"),
           InstalledFile("win32-x64", "ffprobe")} }

InitAccessor ==
  /\ config \in StoreDocs
  /\ files \in AccessorFiles
  /\ host \in Hosts
  /\ dirs = {}
  /\ pc = "idle"
  /\ argv = NoArgs
  /\ answer = ""
  /\ platformIdentifier = ""
  /\ installOptions = NoOptions
  /\ exitCode = -1
  /\ requests = {}
  /\ wrote = {}
  /\ atStart = [config |-> config, files |-> files]
  /\ outcome = ""
  /\ envFailure = ""
  /\ repeat = FALSE
  /\ runs = 0
  /\ now = 0
  /\ temp = NoTemp
  /\ located = NoLocated
  /\ loaded = NotLoaded
  /\ cleanupFailed = FALSE
  /\ sources = DOWNLOAD_SOURCES
  /\ procs = NoProcs
  /\ pending = NoPending

\* index.ts line 69: the module is loaded and calls getInstalledBinaries
Load ==
  /\ pc = "idle"
  /\ loaded' = getInstalledBinaries(host, config, files)
  /\ pc' = "loaded"
  /\ UNCHANGED << config, files, dirs, host, argv, answer,
                  platformIdentifier, installOptions, exitCode, outcome,
                  envFailure, requests, wrote, atStart, repeat, runs, now,
                  temp, located,
                  cleanupFailed, sources, procs, pending >>

NextAccessor == Load

SpecAccessor == InitAccessor /\ [][NextAccessor]_vars

(***************************************************************************)
(* Two installer processes at the same time.  The variables of install()   *)
(* hold the invocation that takes the next step; procs holds the other     *)
(* one.  The file system, the clock and the config file are shared.        *)
(***************************************************************************)
\* the variables of one invocation
Locals ==
  [pc |-> pc, host |-> host, argv |-> argv, answer |-> answer,
   platformIdentifier |-> platformIdentifier,
   installOptions |-> installOptions, exitCode |-> exitCode,
   requests |-> requests, wrote |-> wrote, atStart |-> atStart,
   outcome |-> outcome, envFailure |-> envFailure, repeat |-> repeat,
   located |-> located, cleanupFailed |-> cleanupFailed,
   pending |-> pending]

\* an invocation that has not been started
IdleLocals ==
  [pc |-> "idle", host |-> NoHost, argv |-> NoArgs, answer |-> "",
   platformIdentifier |-> "", installOptions |-> NoOptions,
   exitCode |-> -1, requests |-> {}, wrote |-> {},
   atStart |-> [config |-> OtherDoc("absent"), files |-> << >>],
   outcome |-> "", envFailure |-> "", repeat |-> FALSE,
   located |-> NoLocated, cleanupFailed |-> FALSE, pending |-> NoPending]

\* the operating system lets the other process take its next steps
Switch ==
  /\ procs # << >>
  /\ procs[1].pc # "done"
  /\ pc # "idle"
  /\ procs' = << Locals >>
  /\ pc' = procs[1].pc
  /\ host' = procs[1].host
  /\ argv' = procs[1].argv
  /\ answer' = procs[1].answer
  /\ platformIdentifier' = procs[1].platformIdentifier
  /\ installOptions' = procs[1].installOptions
  /\ exitCode' = procs[1].exitCode
  /\ requests' = procs[1].requests
  /\ wrote' = procs[1].wrote
  /\ atStart' = procs[1].atStart
  /\ outcome' = procs[1].outcome
  /\ envFailure' = procs[1].envFailure
  /\ repeat' = procs[1].repeat
  /\ located' = procs[1].located
  /\ cleanupFailed' = procs[1].cleanupFailed
  /\ pending' = procs[1].pending
  /\ UNCHANGED << config, files, dirs, runs, now, temp, loaded, sources >>

\* updateConfig lines 159-176: read the config file or start a new value;
\* lines 178-181 throw when the value has no platforms object
UpdateRead ==
  /\ pc = "update"
  /\ LET cur == readConfigOrNew(config, now)
     IN  IF platformsLookupThrows(cur)
         THEN /\ Exit(1, "failed", "")
              /\ UNCHANGED pending
         ELSE /\ pending' = [held |-> TRUE, doc |-> cur]
              /\ Goto("update_open")
  /\ UNCHANGED << config, files, dirs, host, argv, answer, platformIdentifier,
                  installOptions, requests, wrote, atStart, repeat,
                  runs, now, temp, located, loaded, cleanupFailed, sources,
                  procs >>

\* updateConfig lines 201-202: ensureDir, then writeFile opens the config
\* file for writing, which cuts it to length 0
UpdateOpen ==
  /\ pc = "update_open"
  /\ \E o \in {"ok", "failOpen"} :
       /\ config' = writeFileResult(config, OtherDoc("garbage"), o)
       /\ IF writeFileThrows(config, o)
          THEN /\ Exit(1, "failed", "write")
               /\ pending' = NoPending
          ELSE /\ Goto("update_write")
               /\ UNCHANGED pending
  /\ UNCHANGED << files, dirs, host, argv, answer, platformIdentifier,
                  installOptions, requests, wrote, atStart, repeat,
                  runs, now, temp, located, loaded, cleanupFailed, sources,
                  procs >>

\* updateConfig lines 183-202: the value read, with the entries of this
\* install and the time of the update, is written into the opened file
UpdateWrite ==
  /\ pc = "update_write"
  /\ \E o \in {"ok", "failWrite"} :
       /\ config' = writeFileResult(config,
                      mergeConfig(pending.doc, platformIdentifier,
                                  installOptions, now), o)
       /\ IF o = "ok" THEN Exit(0, "installed", "")
          ELSE Exit(1, "failed", "write")
  /\ pending' = NoPending
  /\ UNCHANGED << files, dirs, host, argv, answer, platformIdentifier,
                  installOptions, requests, wrote, atStart, repeat,
                  runs, now, temp, located, loaded, cleanupFailed, sources,
                  procs >>

\* the hosts and arguments of the two processes
ConcurrentHosts == { [platform |-> "linux", arch |-> "x64"] }

ConcurrentPlatformArgs == {"", "--platform=win32-x64"}

\* each of the two processes is started once
ConcurrentInvoke ==
  /\ pc = "idle"
  /\ Start(ConcurrentHosts, ConcurrentPlatformArgs, {""})

\* index.ts line 69 in a third process: an application loads the module
\* while the installers run
ConcurrentLoad ==
  /\ \E h \in ConcurrentHosts :
       loaded' = getInstalledBinaries(h, config, files)
  /\ UNCHANGED << config, files, dirs, pc, host, argv, answer,
                  platformIdentifier, installOptions, exitCode, outcome,
                  envFailure, requests, wrote, atStart, repeat, runs, now,
                  temp, located, cleanupFailed, sources, procs, pending >>

\* the record of an earlier install of ffprobe for linux-x64
ConcurrentInitialConfig ==
  ConfigDoc("config",
            [id \in {"linux-x64"} |->
               [k \in {"ffprobe"} |-> ConfigBinaryInfo(id, "ffprobe")]],
            0)

InitConcurrent ==
  /\ config = ConcurrentInitialConfig
  /\ files = [p \in Paths |-> NoFile]
  /\ dirs = {}
  /\ pc = "idle"
  /\ host = NoHost
  /\ argv = NoArgs
  /\ answer = ""
  /\ platformIdentifier = ""
  /\ installOptions = NoOptions
  /\ exitCode = -1
  /\ requests = {}
  /\ wrote = {}
  /\ atStart = [config |-> config, files |-> files]
  /\ outcome = ""
  /\ envFailure = ""
  /\ repeat = FALSE
  /\ runs = 0
  /\ now = 0
  /\ temp = NoTemp
  /\ located = NoLocated
  /\ loaded = NotLoaded
  /\ cleanupFailed = FALSE
  /\ sources = DOWNLOAD_SOURCES
  /\ procs = << IdleLocals >>
  /\ pending = NoPending

NextConcurrent ==
  \/ ConcurrentInvoke
  \/ Switch
  \/ InitConfig
  \/ ResolvePlatform
  \/ PrepareDir
  \/ Download
  \/ MakeExecutable
  \/ UpdateRead
  \/ UpdateOpen
  \/ UpdateWrite
  \/ EventLoopDrained
  \/ ConcurrentLoad

SpecConcurrent == InitConcurrent /\ [][NextConcurrent]_vars

\* two processes of the archive-extracting installer at the same time
InitConcurrentArchive ==
  /\ config = ConfigDoc("config",
                [id \in {"linux-x64"} |->
                   [k \in {"ffprobe"} |->
                      SourceBinaryInfo(DOWNLOAD_SOURCES["linux-x64"], k)]],
                0)
  /\ files = [p \in ArchivePaths |-> NoFile]
  /\ dirs = {}
  /\ pc = "idle"
  /\ host = NoHost
  /\ argv = NoArgs
  /\ answer = ""
  /\ platformIdentifier = ""
  /\ installOptions = NoOptions
  /\ exitCode = -1
  /\ requests = {}
  /\ wrote = {}
  /\ atStart = [config |-> config, files |-> files]
  /\ outcome = ""
  /\ envFailure = ""
  /\ repeat = FALSE
  /\ runs = 0
  /\ now = 0
  /\ temp = NoTemp
  /\ located = NoLocated
  /\ loaded = NotLoaded
  /\ cleanupFailed = FALSE
  /\ sources = DOWNLOAD_SOURCES
  /\ procs = << IdleLocals >>
  /\ pending = NoPending

NextConcurrentArchive ==
  \/ ConcurrentInvoke
  \/ Switch
  \/ InitConfig
  \/ ResolvePlatform
  \/ ArchivePrepare
  \/ ArchiveFetch
  \/ ArchiveExtract
  \/ ArchiveInstall
  \/ ArchiveUpdateConfig
  \/ ArchiveCleanup
  \/ EventLoopDrained

SpecConcurrentArchive == InitConcurrentArchive /\ [][NextConcurrentArchive]_vars

(***************************************************************************)
(* downloadBinaries() of part_004 called on its own, with a table of       *)
(* sources that holds a source of a format without an extraction strategy. *)
(* The table shipped has no such source; the type of format (types.ts      *)
(* 271) and the branch at lines 203-205 allow one.  The end of the call is *)
(* read from outcome: "installed" when the promise is fulfilled, "failed"  *)
(* when it is rejected.                                                    *)
(***************************************************************************)
ManualFormats == {"aar", "pkg"}

ManualIdentifier == "freebsd-x64"

\* the source of the format f for the identifier; the second table gives no
\* path for ffprobe
ManualSource(f, probePath) ==
  DownloadSource("https://example.org/ffmpeg/ffmpeg-7.0.2." \o f, f,
                 "bin/ffmpeg", probePath, "7.0.2", NoSecondary)

ManualSources ==
  { [id \in SourceIdentifiers \cup {ManualIdentifier} |->
       IF id = ManualIdentifier THEN ManualSource(f, pp)
       ELSE DOWNLOAD_SOURCES[id]] :
      f \in ManualFormats, pp \in {"bin/ffprobe", ""} }

\* every value of the parameter installOptions
AllInstallOptions == [ffmpeg : BOOLEAN, ffprobe : BOOLEAN]

\* downloadBinaries(platformIdentifier, installOptions) is called
CallDownloadBinaries ==
  /\ pc \in {"idle", "done"}
  /\ runs < MaxArchiveRuns
  /\ \E h \in ArchiveHosts, options \in AllInstallOptions :
       /\ host' = h
       /\ installOptions' = options
  /\ platformIdentifier' = ManualIdentifier
  /\ pc' = "prepare"
  /\ runs' = runs + 1
  /\ now' = now + 1
  /\ exitCode' = -1
  /\ outcome' = ""
  /\ envFailure' = ""
  /\ requests' = {}
  /\ wrote' = {}
  /\ atStart' = [config |-> config, files |-> files]
  /\ located' = NoLocated
  /\ cleanupFailed' = FALSE
  /\ repeat' = FALSE
  /\ UNCHANGED << config, files, dirs, temp, loaded, argv, answer,
                  sources, procs, pending >>

InitManual ==
  /\ config \in ArchiveInitialConfigs
  /\ files = [p \in ArchivePaths |-> NoFile]
  /\ dirs = {}
  /\ pc = "idle"
  /\ host = NoHost
  /\ argv = NoArgs
  /\ answer = ""
  /\ platformIdentifier = ""
  /\ installOptions = NoOptions
  /\ exitCode = -1
  /\ requests = {}
  /\ wrote = {}
  /\ atStart = [config |-> config, files |-> files]
  /\ outcome = ""
  /\ envFailure = ""
  /\ repeat = FALSE
  /\ runs = 0
  /\ now = 0
  /\ temp = NoTemp
  /\ located = NoLocated
  /\ loaded = NotLoaded
  /\ cleanupFailed = FALSE
  /\ sources \in ManualSources
  /\ procs = NoProcs
  /\ pending = NoPending

NextManual ==
  \/ CallDownloadBinaries
  \/ ArchivePrepare
  \/ ArchiveFetch
  \/ ArchiveExtract
  \/ ArchiveInstall
  \/ ArchiveUpdateConfig
  \/ ArchiveCleanup
  \/ EventLoopDrained

SpecManual == InitManual /\ [][NextManual]_vars

(***************************************************************************)
(* One invocation of install() under fair scheduling: every awaited        *)
(* operation completes or reports a failure, so a step that can be taken   *)
(* is taken, and a process whose event loop holds nothing more ends.       *)
(***************************************************************************)
\* one process is started
InvokeOnce ==
  /\ pc = "idle"
  /\ Invoke

\* a step of the invocation
InstallStep ==
  \/ InitConfig
  \/ ResolvePlatform
  \/ PrepareDir
  \/ Download
  \/ MakeExecutable
  \/ UpdateConfig
  \/ EventLoopDrained

NextLive ==
  \/ InvokeOnce
  \/ InitConfig
  \/ ResolvePlatform
  \/ PrepareDir
  \/ Download
  \/ MakeExecutable
  \/ UpdateConfig
  \/ EventLoopDrained

SpecLive == Init /\ [][NextLive]_vars /\ WF_vars(InstallStep)

TypeOK ==
  /\ config.state \in ConfigStates
  /\ pc \in {"idle", "init", "resolve", "prepare", "download_ffmpeg",
             "chmod_ffmpeg", "download_ffprobe", "chmod_ffprobe", "update",
             "update_open", "update_write", "a_fetch", "a_extract",
             "a_ffmpeg", "a_ffprobe", "a_update",
             "a_cleanup", "hung", "done", "loaded"}
  /\ exitCode \in {-1, 0, 1}
  /\ runs \in 0..MaxRuns
  /\ dirs \subseteq { getPlatformDir(id) : id \in ArchiveIdentifiers }
                   \cup { tempDirOf(id) : id \in ArchiveIdentifiers }
  /\ DOMAIN files \in {Paths, ArchivePaths}
  /\ \A id \in DOMAIN temp : \A e \in temp[id] :
       e.part \in {"empty", "partial", "full"}
  /\ located \in [Kinds -> {""} \cup { f.path : f \in UNION ArchiveListings }]

(***************************************************************************)
(* Properties                                                              *)
(***************************************************************************)
\* the invocation has ended
Ended == pc = "done"

\* the entry updateConfig records for a kind of an identifier
Recorded(id, k) == ConfigBinaryInfo(id, binaryFileName(id, k))

HasEntry(doc, id, k) ==
  /\ doc.state = "config"
  /\ id \in DOMAIN doc.platforms
  /\ k \in DOMAIN doc.platforms[id]

HasExecBits(f) == BitAnd(f.mode, ExecBits) = ExecBits

\* C1: after downloadBinaries has completed for the identifier of the host,
\* getInstalledBinaries does not throw and, for every requested kind, gives
\* the path of the file the installer wrote and the version and url the
\* installer recorded.
C1_InstallAccessRoundTrip ==
  ( /\ Ended
    /\ outcome = "installed"
    /\ platformIdentifier = getCurrentPlatform(host).identifier )
  => LET r == getInstalledBinaries(host, config, files)
     IN  /\ ~r.threw
         /\ \A k \in Kinds :
              installOptions[k] =>
                /\ r[k].defined
                /\ r[k].path = destPath(platformIdentifier, k)
                /\ r[k].path \in wrote
                /\ files[r[k].path].part = "full"
                /\ r[k].version = Recorded(platformIdentifier, k).version
                /\ r[k].url = Recorded(platformIdentifier, k).url

C1_Witness ==
  /\ Ended
  /\ outcome = "installed"
  /\ platformIdentifier = getCurrentPlatform(host).identifier
  /\ isWindowsId(platformIdentifier)
  /\ installOptions.ffmpeg /\ installOptions.ffprobe
  /\ getInstalledBinaries(host, config, files).ffprobe.defined

\* C2: between invocations, every entry of the config file has its file at
\* <binariesRoot>/P/<filename>, completely fetched, and with the execute
\* bits when P is not a Windows identifier.
C2_EntryImpliesInstalledFile ==
  (pc \in {"idle", "done"} /\ config.state = "config")
  => \A id \in DOMAIN config.platforms :
       \A k \in DOMAIN config.platforms[id] :
         LET f == files[pathJoin(getPlatformDir(id),
                                 config.platforms[id][k].relativePath)]
         IN  /\ f.exists
             /\ f.part = "full"
             /\ ~isWindowsId(id) => HasExecBits(f)

\* C3: an updateConfig that returns, run on a valid config, leaves a file
\* whose read gives for each kind of S the entry just written and every
\* other entry that was there, unchanged.
C3_UpsertRoundTrip ==
  [][ ( /\ pc = "update"
        /\ config.state = "config"
        /\ outcome' = "installed" )
      => LET rd == readConfigOrNew(config', now)
             P  == platformIdentifier
         IN  /\ rd.state = "config"
             /\ \A k \in Kinds :
                  installOptions[k] =>
                    /\ HasEntry(rd, P, k)
                    /\ rd.platforms[P][k] =
                         [version      |-> GITHUB_RELEASE_TAG,
                          url          |-> getGitHubReleaseUrl(P,
                                             binaryFileName(P, k)),
                          relativePath |-> binaryFileName(P, k)]
             /\ \A id \in DOMAIN config.platforms :
                  \A k \in DOMAIN config.platforms[id] :
                    (id # P \/ ~installOptions[k]) =>
                      /\ HasEntry(rd, id, k)
                      /\ rd.platforms[id][k] = config.platforms[id][k]
    ]_vars

C3_Witness ==
  /\ Ended
  /\ outcome = "installed"
  /\ installOptions.ffmpeg /\ ~installOptions.ffprobe
  /\ HasEntry(atStart.config, platformIdentifier, "ffmpeg")
  /\ HasEntry(atStart.config, platformIdentifier, "ffprobe")
  /\ atStart.config.platforms[platformIdentifier]["ffmpeg"].version
       = EARLIER_RELEASE_TAG
  /\ config.platforms[platformIdentifier]["ffmpeg"].version
       = GITHUB_RELEASE_TAG
  /\ \E id \in DOMAIN atStart.config.platforms :
       /\ id # platformIdentifier
       /\ HasEntry(config, id, "ffmpeg")

\* C4: a config file that is absent, unreadable or not valid JSON is read
\* by updateConfig as the empty ConfigFile {platforms: {}, lastUpdated: now}
\* and makes verifyConfig return false; neither raises.
MissingOrInvalid == {"absent", "unreadable", "garbage"}

C4_StoreResilience ==
  [][ (config.state \in MissingOrInvalid)
      => /\ readConfigOrNew(config, now) = ConfigDoc("config", EmptyMap, now)
         /\ ~verifyConfig(config)
         \* updateConfig: only the write can fail, and a write that succeeds
         \* stores the merge into the empty ConfigFile
         /\ pc = "update" =>
              /\ outcome' = "failed" => envFailure' = "write"
              /\ outcome' = "installed" =>
                   config' = mergeConfig(ConfigDoc("config", EmptyMap, now),
                               platformIdentifier, installOptions, now)
         \* install(): verifyConfig said false, the file is created anew
         /\ pc = "init" =>
              /\ pc' = "resolve" => config' = ConfigDoc("config", EmptyMap, now)
              /\ pc' = "done" => envFailure' = "write"
    ]_vars

C4_Witness ==
  /\ Ended
  /\ outcome = "installed"
  /\ atStart.config.state = "garbage"
  /\ installOptions.ffmpeg
  /\ HasEntry(config, platformIdentifier, "ffmpeg")

\* C5: whatever the config file holds, an install whose directory creation,
\* downloads and file operations all succeed ends without error and leaves
\* a config with the entries of the kinds it installed.
C5_CorruptionNeverFatal ==
  ( /\ Ended
    /\ getCurrentPlatform(host) # NoPlatform
    /\ envFailure = "" )
  => /\ exitCode = 0
     /\ outcome = "installed"
     /\ \A k \in Kinds :
          installOptions[k] => HasEntry(config, platformIdentifier, k)

\* C6: a successful downloadBinaries that repeats the previous successful
\* one (same identifier, same kinds) leaves the files and the entries of the
\* config as the first left them; only lastUpdated may differ.
C6_PipelineIdempotent ==
  (Ended /\ repeat /\ outcome = "installed")
  => /\ files = atStart.files
     /\ config.state = "config"
     /\ config.platforms = atStart.config.platforms

C6_Witness ==
  /\ Ended
  /\ repeat
  /\ outcome = "installed"
  /\ ~isWindowsId(platformIdentifier)
  /\ installOptions.ffmpeg /\ installOptions.ffprobe
  /\ config.lastUpdated # atStart.config.lastUpdated

\* C7: an install of win32-x64 with --ffmpeg-only writes no file but
\* <root>/win32-x64/ffmpeg.exe, requests nothing but the ffmpeg binary, and
\* keeps the ffprobe file and the ffprobe entry of win32-x64 as they were.
ScenarioB ==
  /\ pc \notin {"idle", "init", "resolve", "done"}
  /\ platformIdentifier = "win32-x64"
  /\ argv.ffmpegOnly /\ ~argv.ffprobeOnly

C8_UnsupportedIdentifierAborts ==
  ( /\ pc # "idle"
    /\ getCurrentPlatform(host) # NoPlatform
    /\ argv.platformArg = "--platform=freebsd-x64" )
  => /\ requests = {}
     /\ Ended => (exitCode = 1 /\ config = atStart.config)

\* C9: an invocation ends with exit code 0 exactly when every requested
\* kind was installed and recorded, and with exit code 1 otherwise.
C9_ExitStatus ==
  Ended
  => /\ exitCode \in {0, 1}
     /\ exitCode = 0 <=>
          /\ outcome = "installed"
          /\ \A k \in Kinds :
               installOptions[k] =>
                 /\ HasEntry(config, platformIdentifier, k)
                 /\ files[destPath(platformIdentifier, k)].part = "full"

\* C10: a fetch that fails ends the invocation with an error and leaves no
\* partially written file at a final destination; a binary that was
\* installed there before is left as it was.
C10_FailedFetchLeavesNoPartialFile ==
  (Ended /\ envFailure \in {"fetch", "stream"})
  => /\ exitCode = 1
     /\ \A p \in Paths :
          /\ files[p].part # "partial"
          /\ (atStart.files[p].exists /\ atStart.files[p].part = "full")
               => files[p] = atStart.files[p]


\* the kind k was installed by the running invocation: its file was written
\* in full at its destination and, off Windows, made executable
InstalledNow(k) ==
  LET dest == destPath(platformIdentifier, k)
  IN  /\ dest \in wrote
      /\ files[dest].part = "full"
      /\ isWindowsId(platformIdentifier) \/ HasExecBits(files[dest])

\* C11: when both kinds are requested and the fetch of one of them fails,
\* the other kind has been attempted too when the invocation ends, and the
\* config holds the entry of every kind this invocation installed.
C11_FailureIsolation ==
  ( /\ Ended
    /\ installOptions.ffmpeg /\ installOptions.ffprobe
    /\ envFailure = "fetch" )
  => \A k \in Kinds :
       /\ destPath(platformIdentifier, k) \in wrote
       /\ InstalledNow(k) =>
            /\ HasEntry(config, platformIdentifier, k)
            /\ config.platforms[platformIdentifier][k] =
                 Recorded(platformIdentifier, k)

\* the source of the identifier declares a secondaryDownload
HasSecondary(id) ==
  /\ id \in DOMAIN DOWNLOAD_SOURCES
  /\ DOWNLOAD_SOURCES[id].secondaryDownload.url # ""

\* C12: for a source that declares a secondaryDownload, when the primary
\* download has succeeded and ffmpeg was located in it, and the archive of
\* the secondary download was not obtained, processing ends without an
\* error, ffmpeg is placed and has its entry in the config, and ffprobe,
\* which depends on the secondary download, has none.
C12_SecondaryPartialFailure ==
  ( /\ Ended
    /\ HasSecondary(platformIdentifier)
    /\ installOptions.ffmpeg /\ installOptions.ffprobe
    /\ atStart.config.state # "emptyobj"
    /\ located.ffmpeg # ""
    /\ sources[platformIdentifier].secondaryDownload.url
         \notin requests
    /\ envFailure = "" )
  => LET dest == sourceDest(platformIdentifier,
                            sources[platformIdentifier], "ffmpeg")
     IN  /\ exitCode = 0
         /\ dest \in wrote /\ files[dest].part = "full"
         /\ HasEntry(config, platformIdentifier, "ffmpeg")
         /\ ~HasEntry(config, platformIdentifier, "ffprobe")

\* the file getBinaryPath resolves for the kind exists as a regular file
BackingFileExists(id, k) ==
  /\ ~getBinaryPath(id, k).threw
  /\ getBinaryPath(id, k).path \in DOMAIN files
  /\ files[getBinaryPath(id, k).path].exists

ScenarioA ==
  /\ Ended
  /\ outcome = "installed"
  /\ platformIdentifier = "linux-x64"
  /\ sources[platformIdentifier].format = "tar.xz"
  /\ installOptions.ffmpeg /\ installOptions.ffprobe
  /\ located = [ffmpeg |-> "ffmpeg", ffprobe |-> "ffprobe"]

\* C14: when the install of linux-x64 with both kinds from the tar.xz
\* source, whose archive holds ffmpeg and ffprobe at its root, has
\* completed, <root>/linux-x64/ffmpeg and <root>/linux-x64/ffprobe hold the
\* files of the archive with the execute bits set, and the config has an
\* entry for each kind whose version is the version of the source.
C14_ScenarioA ==
  ScenarioA =>
    \A k \in Kinds :
      LET dest == BINARIES_DIR \o "/linux-x64/" \o k
          downloadSource == DOWNLOAD_SOURCES["linux-x64"]
      IN  /\ dest \in wrote
          /\ files[dest].exists
          /\ files[dest].part = "full"
          /\ files[dest].url = downloadSource.url \o "#" \o k
          /\ HasExecBits(files[dest])
          /\ HasEntry(config, "linux-x64", k)
          /\ config.platforms["linux-x64"][k].version = downloadSource.version
          /\ config.platforms["linux-x64"][k].url = downloadSource.url

C14_Witness ==
  /\ ScenarioA
  /\ exitCode = 0
  /\ atStart.config.state = "absent"

\* C15: on every host, in the registry or not, the step of install() that
\* resolves the platform of an invocation with --platform=<identifier>
\* selects <identifier> and goes on to the acquisition pipeline.
C15_PlatformOverride ==
  [][ (pc = "resolve" /\ argv.platformArg # "")
        => /\ platformIdentifier' = splitEq1(argv.platformArg)
           /\ pc' = "prepare" ]_vars

\* install() has chosen the kinds and called downloadBinaries
OptionsChosen ==
  pc \in {"prepare", "download_ffmpeg", "chmod_ffmpeg", "download_ffprobe",
          "chmod_ffprobe", "update", "hung"}

\* C16: --ffmpeg-only selects ffmpeg only and --ffprobe-only selects
\* ffprobe only; without a flag the answer 1 or the empty answer selects
\* both kinds, 2 ffmpeg only and 3 ffprobe only; at least one kind is
\* selected, and the kinds passed to downloadBinaries are the kinds the log
\* line announces.
C16_KindSelection ==
  OptionsChosen =>
    /\ argv.ffmpegOnly =>
         installOptions = [ffmpeg |-> TRUE, ffprobe |-> FALSE]
    /\ argv.ffprobeOnly =>
         installOptions = [ffmpeg |-> FALSE, ffprobe |-> TRUE]
    /\ (~argv.ffmpegOnly /\ ~argv.ffprobeOnly) =>
         /\ answer \in {"", "1"} =>
              installOptions = [ffmpeg |-> TRUE, ffprobe |-> TRUE]
         /\ answer = "2" =>
              installOptions = [ffmpeg |-> TRUE, ffprobe |-> FALSE]
         /\ answer = "3" =>
              installOptions = [ffmpeg |-> FALSE, ffprobe |-> TRUE]
    /\ installOptions.ffmpeg \/ installOptions.ffprobe
    /\ installOptions =
         announcedKinds(argv.ffmpegOnly, argv.ffprobeOnly, answer)


\* ---------------------------------------------------------------------
\* the entries find() would accept in getCurrentPlatform
matchesOfHost(table, h) ==
  { i \in 1..Len(table) :
      table[i].platform = h.platform /\ table[i].arch = h.arch }

\* the entries find() would accept in getPlatformByIdentifier
matchesOfIdentifier(table, identifier) ==
  { i \in 1..Len(table) : table[i].identifier = identifier }

\* identifiers and (platform, arch) pairs differ within every table
RegistryEntriesDistinct ==
  \A table \in RegistryVariants :
    /\ \A i, j \in 1..Len(table) :
         i # j => /\ table[i].identifier # table[j].identifier
                  /\ << table[i].platform, table[i].arch >>
                       # << table[j].platform, table[j].arch >>
    /\ \A e \in 1..Len(table) :
         Cardinality(matchesOfIdentifier(table, table[e].identifier)) = 1

\* C17: in every variant of the Platform Registry table the identifiers of
\* the entries are pairwise distinct and so are the (platform, arch) pairs;
\* hence at most one entry matches the host (getCurrentPlatform) and at
\* most one matches the identifier in use (getPlatformByIdentifier).
C17_RegistryUnique ==
  /\ RegistryEntriesDistinct
  /\ \A table \in RegistryVariants :
       /\ Cardinality(matchesOfHost(table, host)) <= 1
       /\ Cardinality(matchesOfIdentifier(table, platformIdentifier)) <= 1

C17_Witness ==
  /\ pc = "prepare"
  /\ platformIdentifier = "linux-x64"
  /\ Cardinality(matchesOfHost(SUPPORTED_PLATFORMS, host)) = 1
  /\ Cardinality(matchesOfIdentifier(SUPPORTED_PLATFORMS, platformIdentifier)) = 1
  /\ getPlatformByIdentifier(platformIdentifier).identifier = platformIdentifier


\* ---------------------------------------------------------------------
\* the identifiers of the Platform Registry
RegisteredIdentifiers ==
  { SUPPORTED_PLATFORMS[i].identifier : i \in 1..Len(SUPPORTED_PLATFORMS) }

\* getBinaryPath on every registered identifier and kind
RegisteredPathsNamed ==
  \A id \in RegisteredIdentifiers : \A k \in Kinds :
    LET r == getBinaryPath(id, k)
    IN  /\ ~r.threw
        /\ r.path = pathJoin(pathJoin(BINARIES_DIR, id),
                             getPlatformByIdentifier(id).binaryName[k])
        /\ r.path = pathJoin(pathJoin(BINARIES_DIR, id),
                             binaryFileName(id, k))
        /\ r.path = destPath(id, k)
        /\ endsWith(r.path, ".exe") <=> startsWith(id, "win32")

\* C18: for every registered identifier and each kind, getBinaryPath gives
\* <BINARIES_DIR>/<identifier>/<kind filename>, which ends in .exe exactly
\* when the identifier starts with win32, and this is the path of the file
\* downloadBinaries writes for that identifier and kind.
\* (The table is constant: the part about all registered identifiers is
\* evaluated before the first invocation.)
C18_BinaryPathNaming ==
  /\ pc = "idle" => RegisteredPathsNamed
  /\ (wrote # {} /\ platformIdentifier \in RegisteredIdentifiers) =>
       \A p \in wrote :
         \E k \in Kinds :
           /\ installOptions[k]
           /\ ~getBinaryPath(platformIdentifier, k).threw
           /\ p = getBinaryPath(platformIdentifier, k).path

C18_Witness ==
  /\ Ended
  /\ outcome = "installed"
  /\ platformIdentifier = "win32-x64"
  /\ wrote = { getBinaryPath("win32-x64", "ffmpeg").path,
               getBinaryPath("win32-x64", "ffprobe").path }
  /\ \A p \in wrote : endsWith(p, ".exe") /\ files[p].exists


\* ---------------------------------------------------------------------
\* README.md, "Supported platforms": the identifiers listed for --platform
README_PLATFORMS ==
  { "win32-x64", "win32-ia32", "darwin-x64", "darwin-arm64",
    "linux-x64", "linux-arm64", "linux-armv7l" }

\* C19: every identifier the README lists as supported for --platform is an
\* identifier of the Platform Registry: getPlatformByIdentifier returns a
\* PlatformInfo for it and getBinaryPath does not throw for it.
C19_ReadmePlatformsRegistered ==
  \A id \in README_PLATFORMS :
    /\ getPlatformByIdentifier(id) # NoPlatform
    /\ getPlatformByIdentifier(id).identifier = id
    /\ \A k \in Kinds : ~getBinaryPath(id, k).threw


\* ---------------------------------------------------------------------
\* the running invocation is inside downloadBinaries
InDownloadBinaries ==
  pc \in {"prepare", "download_ffmpeg", "download_ffprobe",
          "chmod_ffmpeg", "chmod_ffprobe", "update"}

\* C20: record comes last.  Within one downloadBinaries invocation the
\* config file is written only after every requested kind has been
\* fetched, placed and (off Windows) made executable; when a step before
\* the record fails, downloadBinaries throws and the config file is left
\* exactly as it was.
C20_RecordComesLast ==
  [][ InDownloadBinaries =>
        /\ config' # config =>
             /\ pc = "update"
             /\ \A k \in Kinds : installOptions[k] => InstalledNow(k)
        /\ (pc # "update" /\ envFailure' # "") =>
             /\ outcome' = "failed"
             /\ pc' = "done"
             /\ config' = config ]_vars


\* ---------------------------------------------------------------------
\* the steps of downloadBinaries inside its try block, where tempDir exists
InTryBlock ==
  pc \in {"a_fetch", "a_extract", "a_ffmpeg", "a_ffprobe", "a_update"}

UsesTempDir(l) ==
  l.pc \in {"a_fetch", "a_extract", "a_ffmpeg", "a_ffprobe", "a_update",
            "a_cleanup"}

\* downloadPath of the invocation with the local state l
downloadPathOf(l) ==
  pathJoin(tempDirOf(l.platformIdentifier),
           downloadName(sources[l.platformIdentifier]))

\* C22: the temporary extraction directory is scoped per invocation: two
\* invocations that run at the same time, for different platforms or the
\* same one, have different temporary directories and download paths, and
\* the archive an invocation has fetched is still there when it extracts.
C22_TempDirScoped ==
  /\ (procs # << >> /\ UsesTempDir(Locals) /\ UsesTempDir(procs[1])) =>
       /\ tempDirOf(platformIdentifier)
            # tempDirOf(procs[1].platformIdentifier)
       /\ downloadPathOf(Locals) # downloadPathOf(procs[1])
  /\ pc = "a_extract" =>
       hasPath(temp[platformIdentifier],
               downloadName(sources[platformIdentifier]))


\* ---------------------------------------------------------------------
\* no write of the config file was failed by the environment
NoWriteFailure ==
  /\ envFailure # "write"
  /\ \A i \in DOMAIN procs : procs[i].envFailure # "write"

\* C23: the config upsert persists atomically.  Starting from a complete
\* config file and with no failing write, the config file is a complete
\* JSON document at every moment, and a Runtime Accessor that loads at any
\* moment reads a complete document and does not throw.
C23_AtomicPersist ==
  NoWriteFailure =>
    /\ config.state = "config"
    /\ verifyConfig(config)
    /\ ~loaded.threw


\* ---------------------------------------------------------------------
\* the entries an invocation with the local state l has to record
RecordedBy(doc, l) ==
  \A k \in Kinds :
    l.installOptions[k] => HasEntry(doc, l.platformIdentifier, k)

\* C24: two installer invocations that run at the same time for two
\* different platform identifiers and both succeed leave a config file with
\* the entries of both platforms.
C24_ConcurrentUpserts ==
  ( /\ procs # << >>
    /\ pc = "done" /\ outcome = "installed"
    /\ procs[1].pc = "done" /\ procs[1].outcome = "installed"
    /\ platformIdentifier # procs[1].platformIdentifier )
  => /\ RecordedBy(config, Locals)
     /\ RecordedBy(config, procs[1])


\* ---------------------------------------------------------------------
\* permission bits a placed binary may carry before the permission step:
\* 0600, 0644, 0664, 0755, 0775
PlacedModes == {384, 420, 436, 493, 509}

\* downloadBinaries lines 115-118: the mode after the permission step of
\* the installer
installerPermissionStep(platformId, mode) ==
  IF isWindowsId(platformId) THEN mode
  ELSE makeExecutable([NoFile EXCEPT !.exists = TRUE, !.mode = mode]).mode

\* processPlatform lines 228-236 of the build script: chmod(path, 0o755)
processPlatformPermissionStep(platformId, mode) ==
  IF isWindowsId(platformId) THEN mode ELSE ExecMode

\* the mode after the step keeps every bit of the mode before and has the
\* three execute bits, on a Windows identifier it is the mode before
PermissionStepOk(platformId, before, after) ==
  IF isWindowsId(platformId) THEN after = before
  ELSE /\ after = BitOr(before, ExecMode)
       /\ BitAnd(after, before) = before
       /\ BitAnd(after, ExecBits) = ExecBits

\* C25: permission step.  On a non-Windows identifier the mode of the
\* placed binary after the step is (mode before) OR 0755, on an identifier
\* starting with win32 the mode is not changed; this holds for the step of
\* the installer and for the step of the build script.
C25_PermissionStep ==
  \A id \in RegisteredIdentifiers : \A m \in PlacedModes :
    /\ PermissionStepOk(id, m, installerPermissionStep(id, m))
    /\ PermissionStepOk(id, m, processPlatformPermissionStep(id, m))


\* ---------------------------------------------------------------------
\* findBinary lines 79-108 of the build script: the same loop, searching
\* for binaryName as given
findBinary(dir, binaryName, unreadable) ==
  searchQueue(<< "." >>, dir, binaryName, unreadable)

\* directory trees to search: what the archives may hold, trees with
\* matches at several depths, and the empty tree
SearchTrees ==
  { extracted(listing, "") : listing \in ArchiveListings }
    \cup { extracted({ ArchiveFile("a/b/ffmpeg", ExecMode),
                       ArchiveFile("c/ffmpeg", ExecMode),
                       ArchiveFile("c/d/ffprobe", ExecMode) }, ""),
           extracted({ ArchiveFile("pkg/bin/FFmpeg.exe", ExecMode),
                       ArchiveFile("pkg/FFPROBE.EXE", ExecMode),
                       ArchiveFile("ffmpeg.txt", NewFileMode) }, ""),
           {} }

SearchNames == {"ffmpeg", "ffprobe", "ffmpeg.exe", "ffprobe.exe"}

\* the files of the tree whose name is the name ignoring case
matchesOfName(tree, name) ==
  { e.path : e \in { f \in tree :
                       toLowerCase(basename(f.path)) = toLowerCase(name) } }

\* the search has returned a match of the name of least depth, and null
\* only when the tree holds no match
SearchOk(tree, name, results) ==
  LET m == matchesOfName(tree, name)
  IN  IF m = {} THEN results = {""}
      ELSE results \subseteq
             { p \in m : \A q \in m : depthOf(p) <= depthOf(q) }

\* C26: breadth-first binary search.  For every directory tree and every
\* binary name the search returns a regular file whose name is the searched
\* name ignoring case whenever the tree holds one, one of least depth, and
\* null only when no file of the tree matches; on every host, for the
\* search of the installer and for the search of the build script.
\* (The search is a function of its arguments: it is evaluated before the
\* first invocation.)
C26_BreadthFirstSearch ==
  pc = "idle" =>
    \A tree \in SearchTrees : \A name \in SearchNames :
      /\ SearchOk(tree, name, findBinary(tree, name, {}))
      /\ \A h \in ArchiveHosts :
           SearchOk(tree, name,
                    findBinaryInDirectory(tree, name, h.platform, {}))


\* ---------------------------------------------------------------------
\* the step of downloadBinaries that locates the kind k is about to run and
\* the exact path of the source is not in tempDir, or the source gives none
SearchNeeded(k) ==
  /\ pc = "a_" \o k
  /\ LET sourcePath == IF k = "ffmpeg"
                       THEN sources[platformIdentifier].ffmpegPath
                       ELSE sources[platformIdentifier].ffprobePath
     IN  sourcePath = "" \/ ~hasPath(temp[platformIdentifier], sourcePath)

\* C27: locate step.  When the exact in-archive path is absent from the
\* extraction directory, or the source gives none, the file located is one
\* whose name is, ignoring case, the filename expected for the target
\* identifier (with .exe exactly for a Windows identifier), whatever the
\* host; when the directory holds no such file the install of that binary
\* fails.
C27_LocateStep ==
  [][ \A k \in Kinds :
        SearchNeeded(k) =>
          LET expected == binaryFileName(platformIdentifier, k)
              m == matchesOfName(temp[platformIdentifier], expected)
          IN  /\ located'[k] # "" => located'[k] \in m
              /\ m = {} => (located'[k] = "" /\ outcome' = "failed") ]_vars

\* ---------------------------------------------------------------------
\* the config file has an entry for the identifier
HasPlatformEntry(doc, id) ==
  doc.state = "config" /\ id \in DOMAIN doc.platforms

\* the source of the call is of a format without an extraction strategy
ManualFormatCall ==
  /\ platformIdentifier \in DOMAIN sources
  /\ sources[platformIdentifier].format \in ManualFormats

EntriesOf(doc) ==
  IF doc.state = "config"
  THEN UNION { { << id, k >> : k \in DOMAIN doc.platforms[id] } :
               id \in DOMAIN doc.platforms }
  ELSE {}

\* C29: over any sequence of installer invocations the set of
\* (platform, kind) entries of the config file never shrinks: no step of an
\* invocation, initialization included, successful or failed, takes an
\* entry out of the file.
C29_ConfigNeverShrinks ==
  [][ EntriesOf(config) \subseteq EntriesOf(config') ]_vars

\* ---------------------------------------------------------------------
\* the promise of downloadFile is pending and nothing is left to settle it
PromiseNeverSettled == pc = "hung" \/ outcome = "hung"

\* C30: termination.  When every request and every filesystem operation
\* completes or fails, a broken response stream included, an invocation
\* that has started ends, either with the install recorded or with exit
\* code 1, and the promise of downloadFile has been settled.
C30_Termination ==
  (pc = "init") ~> ( /\ Ended
                     /\ outcome = "installed" \/ exitCode = 1
                     /\ ~PromiseNeverSettled )

====
